---- MODULE Spec2Model ----
(***************************************************************************)
(* Retrieval and context-assembly subsystem of the turbulence-model        *)
(* parameter recommender: the model registry (src/src/turbulence_models.py)*)
(* and the RetrievalSystem (src/src/retrieval_system.py) on top of the     *)
(* VectorStore (src/src/vector_store.py); the RAGPipeline that owns them   *)
(* (src/src/rag_pipeline.py); the DocumentProcessor                        *)
(* (src/src/document_processor.py) and the batch ingestion scripts         *)
(* (src/scripts/populate_database.py); the ParameterGenerator              *)
(* (src/src/parameter_generator.py).                                       *)
(*                                                                         *)
(* Python strings are TLC strings (Len, SubSeq and \o act on them as on    *)
(* sequences of characters).  Relevance scores are carried in thousandths  *)
(* (900 stands for 0.9), the resolution at which the packer prints them.   *)
(***************************************************************************)
EXTENDS Integers, Sequences, FiniteSets, TLC

VARIABLES
    connected,       \* RetrievalSystem.connected
    index,           \* VectorStore.index: "None" or "Index" (a handle)
    initialized,     \* RAGPipeline.initialized
    stored,          \* the vectors the index holds, by id
    last             \* the last call made on the object: its arguments, the provider
                     \* calls it issued, whether it raised, and what it returned

vars == <<connected, index, initialized, stored, last>>

(***************************************************************************)
(* Python string primitives used by the code.                              *)
(***************************************************************************)
Min(a, b) == IF a <= b THEN a ELSE b
Max(a, b) == IF a >= b THEN a ELSE b

Chr(s, i) == SubSeq(s, i, i)

\* s[:n]: a negative n counts from the end of s
SliceTo(s, n) ==
    IF n >= 0 THEN SubSeq(s, 1, Min(n, Len(s)))
              ELSE SubSeq(s, 1, Max(Len(s) + n, 0))

Whitespace == {" ", "\t", "\n", "\r", "\f"}

RECURSIVE SkipWhitespace(_, _)
SkipWhitespace(s, i) ==
    IF i > Len(s) \/ Chr(s, i) \notin Whitespace THEN i ELSE SkipWhitespace(s, i + 1)

RECURSIVE SkipWord(_, _)
SkipWord(s, i) ==
    IF i > Len(s) \/ Chr(s, i) \in Whitespace THEN i ELSE SkipWord(s, i + 1)

RECURSIVE SkipWhitespaceBack(_, _)
SkipWhitespaceBack(s, i) ==
    IF i < 1 \/ Chr(s, i) \notin Whitespace THEN i ELSE SkipWhitespaceBack(s, i - 1)

\* s.strip()
Strip(s) ==
    LET a == SkipWhitespace(s, 1)
    IN  IF a > Len(s) THEN "" ELSE SubSeq(s, a, SkipWhitespaceBack(s, Len(s)))

\* s.split(): the maximal runs of non-whitespace characters, in order.
\* WordsIn(s, lo, hi) lists the words that start at a position in lo..hi.
IsWordStart(s, i) ==
    /\ Chr(s, i) \notin Whitespace
    /\ i = 1 \/ Chr(s, i - 1) \in Whitespace

RECURSIVE WordsIn(_, _, _)
WordsIn(s, lo, hi) ==
    IF lo > hi THEN <<>>
    ELSE IF lo = hi
         THEN IF IsWordStart(s, lo) THEN <<SubSeq(s, lo, SkipWord(s, lo) - 1)>> ELSE <<>>
    ELSE LET mid == (lo + hi) \div 2
         IN  WordsIn(s, lo, mid) \o WordsIn(s, mid + 1, hi)

Split(s) == WordsIn(s, 1, Len(s))

\* sep.join(parts)
RECURSIVE JoinRange(_, _, _, _)
JoinRange(parts, sep, lo, hi) ==
    IF lo > hi THEN ""
    ELSE IF lo = hi THEN parts[lo]
    ELSE LET mid == (lo + hi) \div 2
         IN  JoinRange(parts, sep, lo, mid) \o sep \o JoinRange(parts, sep, mid + 1, hi)

Join(parts, sep) == JoinRange(parts, sep, 1, Len(parts))

\* s.replace(old, new) for a one-character old
RECURSIVE ReplaceRange(_, _, _, _, _)
ReplaceRange(s, old, new, lo, hi) ==
    IF lo > hi THEN ""
    ELSE IF lo = hi THEN (IF Chr(s, lo) = old THEN new ELSE Chr(s, lo))
    ELSE LET mid == (lo + hi) \div 2
         IN  ReplaceRange(s, old, new, lo, mid) \o ReplaceRange(s, old, new, mid + 1, hi)

Replace(s, old, new) == ReplaceRange(s, old, new, 1, Len(s))

UpperLetters == "ABCDEFGHIJKLMNOPQRSTUVWXYZΑΒΓΔΕΖΗΘΙΚΛΜΝΞΟΠΡΣΤΥΦΧΨΩ"
LowerLetters == "abcdefghijklmnopqrstuvwxyzαβγδεζηθικλμνξοπρστυφχψω"

LowerChar(c) ==
    LET hit == {i \in 1..Len(UpperLetters) : Chr(UpperLetters, i) = c}
    IN  IF hit = {} THEN c ELSE Chr(LowerLetters, CHOOSE i \in hit : TRUE)

\* s.lower()
RECURSIVE LowerRange(_, _, _)
LowerRange(s, lo, hi) ==
    IF lo > hi THEN ""
    ELSE IF lo = hi THEN LowerChar(Chr(s, lo))
    ELSE LET mid == (lo + hi) \div 2
         IN  LowerRange(s, lo, mid) \o LowerRange(s, mid + 1, hi)

Lower(s) == LowerRange(s, 1, Len(s))

Letters ==
    {Chr(UpperLetters, i) : i \in 1..Len(UpperLetters)}
        \cup {Chr(LowerLetters, i) : i \in 1..Len(LowerLetters)}

\* s.isalpha(): non-empty and letters only
IsAlpha(s) == Len(s) > 0 /\ \A i \in 1..Len(s) : Chr(s, i) \in Letters

\* seq[:n] for a list and n >= 0
Take(seq, n) == SubSeq(seq, 1, Min(n, Len(seq)))

RECURSIVE Flatten(_)
Flatten(seqs) == IF seqs = <<>> THEN <<>> ELSE Head(seqs) \o Flatten(Tail(seqs))

(***************************************************************************)
(* The model registry, src/src/turbulence_models.py.  Of each model the    *)
(* fields the retrieval code reads.                                        *)
(***************************************************************************)
Model_k_epsilon ==
    [name |-> "k_epsilon",
     full_name |-> "k-ε (k-epsilon)",
     category |-> "RANS",
     parameters |-> <<
        [name |-> "Cmu", description |-> "Turbulent viscosity constant"],
        [name |-> "C1epsilon", description |-> "Dissipation equation constant C1"],
        [name |-> "C2epsilon", description |-> "Dissipation equation constant C2"],
        [name |-> "sigma_k", description |-> "Prandtl number for turbulent kinetic energy"],
        [name |-> "sigma_epsilon", description |-> "Prandtl number for dissipation rate"] >>,
     applications |-> <<
        "Free shear flows",
        "Wall-bounded flows with mild pressure gradients",
        "Industrial flow applications",
        "Environmental flows" >>]

Model_k_omega_sst ==
    [name |-> "k_omega_sst",
     full_name |-> "k-ω SST (Shear Stress Transport)",
     category |-> "RANS",
     parameters |-> <<
        [name |-> "beta_star", description |-> "Closure coefficient for turbulent kinetic energy destruction"],
        [name |-> "alpha1", description |-> "Closure coefficient for ω equation in inner region"],
        [name |-> "beta1", description |-> "Closure coefficient for ω destruction in inner region"],
        [name |-> "alpha2", description |-> "Closure coefficient for ω equation in outer region"],
        [name |-> "beta2", description |-> "Closure coefficient for ω destruction in outer region"],
        [name |-> "sigma_k1", description |-> "Prandtl number for k equation in inner region"],
        [name |-> "sigma_omega1", description |-> "Prandtl number for ω equation in inner region"],
        [name |-> "sigma_k2", description |-> "Prandtl number for k equation in outer region"],
        [name |-> "sigma_omega2", description |-> "Prandtl number for ω equation in outer region"],
        [name |-> "a1", description |-> "Stress limiter constant"] >>,
     applications |-> <<
        "Adverse pressure gradient flows",
        "Separated flows",
        "Airfoil and wing aerodynamics",
        "Heat transfer applications",
        "Turbomachinery flows" >>]

Model_spalart_allmaras ==
    [name |-> "spalart_allmaras",
     full_name |-> "Spalart-Allmaras",
     category |-> "RANS",
     parameters |-> <<
        [name |-> "Cb1", description |-> "Production constant"],
        [name |-> "Cb2", description |-> "Diffusion constant"],
        [name |-> "Cv1", description |-> "Viscosity constant"],
        [name |-> "Cw1", description |-> "Wall destruction constant"],
        [name |-> "Cw2", description |-> "Wall destruction constant"],
        [name |-> "Cw3", description |-> "Wall destruction constant"],
        [name |-> "sigma", description |-> "Prandtl number for turbulent viscosity"] >>,
     applications |-> <<
        "Aerodynamic flows around airfoils and wings",
        "External aerodynamics",
        "Flows with mild separation",
        "Aerospace applications" >>]

Model_reynolds_stress ==
    [name |-> "reynolds_stress",
     full_name |-> "Reynolds Stress Model (RSM)",
     category |-> "RANS",
     parameters |-> <<
        [name |-> "Cmu", description |-> "Turbulent viscosity constant"],
        [name |-> "C1epsilon", description |-> "Dissipation equation constant C1"],
        [name |-> "C2epsilon", description |-> "Dissipation equation constant C2"],
        [name |-> "C1", description |-> "Slow pressure-strain constant"],
        [name |-> "C2", description |-> "Rapid pressure-strain constant"],
        [name |-> "sigma_epsilon", description |-> "Prandtl number for dissipation rate"],
        [name |-> "sigma_k", description |-> "Prandtl number for turbulent kinetic energy"] >>,
     applications |-> <<
        "Complex flows with strong streamline curvature",
        "Swirling flows",
        "Flows with strong anisotropy",
        "Secondary flow prediction",
        "Buoyant flows" >>]

TURBULENCE_MODELS ==
    [k \in {"k_epsilon", "k_omega_sst", "spalart_allmaras", "reynolds_stress"} |->
        CASE k = "k_epsilon" -> Model_k_epsilon
          [] k = "k_omega_sst" -> Model_k_omega_sst
          [] k = "spalart_allmaras" -> Model_spalart_allmaras
          [] k = "reynolds_stress" -> Model_reynolds_stress]

\* Python's None, where a model was expected
None == [none |-> TRUE]

get_model_names == <<"k_epsilon", "k_omega_sst", "spalart_allmaras", "reynolds_stress">>

\* Faulty variant of get_model: the name is looked up in lower case.
get_model_any_case(model_name) ==
    IF Lower(model_name) \in DOMAIN TURBULENCE_MODELS
    THEN TURBULENCE_MODELS[Lower(model_name)] ELSE None

get_model(model_name) ==
    IF model_name \in DOMAIN TURBULENCE_MODELS THEN TURBULENCE_MODELS[model_name] ELSE None

(***************************************************************************)
(* RetrievalSystem.construct_search_query                                  *)
(***************************************************************************)
MaxQueryLength == 500
KeyWordMinLength == 4
KeyWordsPerParameter == 2
MaxParamTerms == 10
MaxApplications == 3

\* the terms one parameter contributes: its name, then the first key words
\* of its description
ParamTerms(param) ==
    LET desc_words == Split(Lower(param.description))
        key_words  == SelectSeq(desc_words,
                          LAMBDA word : Len(word) > KeyWordMinLength /\ IsAlpha(word))
    IN  <<param.name>> \o
        (IF param.description # "" THEN Take(key_words, KeyWordsPerParameter) ELSE <<>>)

\* the parameter terms of every registered model (a function of the registry
\* alone, so computed once per model)
ModelParamTerms ==
    [k \in DOMAIN TURBULENCE_MODELS |->
        Flatten([i \in 1..Len(TURBULENCE_MODELS[k].parameters) |->
                    ParamTerms(TURBULENCE_MODELS[k].parameters[i])])]

\* Faulty variant of QueryParts: the focus area comes before the description.
QueryPartsFocusFirst(turbulence_model, user_description, focus_area) ==
    LET model_info == TURBULENCE_MODELS[turbulence_model]
        description == Strip(user_description)
        focus == Strip(focus_area)
    IN  <<model_info.full_name,
          Replace(model_info.name, "_", "-"),
          model_info.category \o " turbulence model">>
        \o Take(ModelParamTerms[turbulence_model], MaxParamTerms)
        \o Take(model_info.applications, MaxApplications)
        \o (IF focus # "" THEN <<focus>> ELSE <<>>)
        \o (IF description # "" THEN <<description>> ELSE <<>>)

\* query_parts
QueryParts(turbulence_model, user_description, focus_area) ==
    LET model_info == TURBULENCE_MODELS[turbulence_model]
        param_terms == ModelParamTerms[turbulence_model]
        description == Strip(user_description)
        focus == Strip(focus_area)
    IN  <<model_info.full_name,
          Replace(model_info.name, "_", "-"),
          model_info.category \o " turbulence model">>
        \o Take(param_terms, MaxParamTerms)
        \o (IF model_info.applications # <<>>
                THEN Take(model_info.applications, MaxApplications) ELSE <<>>)
        \o (IF description # "" THEN <<description>> ELSE <<>>)
        \o (IF focus # "" THEN <<focus>> ELSE <<>>)

\* Faulty variant of FallbackQuery: the description is trimmed, as it is for a
\* registered model.
FallbackQueryTrimmed(turbulence_model, user_description) ==
    turbulence_model \o " turbulence model parameters " \o Strip(user_description)

\* the query for a name the registry does not resolve
FallbackQuery(turbulence_model, user_description) ==
    turbulence_model \o " turbulence model parameters " \o user_description

construct_search_query(turbulence_model, user_description, focus_area) ==
    LET model_info == get_model(turbulence_model)
    IN  IF model_info = None
        THEN FallbackQuery(turbulence_model, user_description)
        ELSE LET query == Join(QueryParts(turbulence_model, user_description, focus_area), " ")
                 clean == Join(Split(Replace(query, "_", " ")), " ")
             IN  SliceTo(clean, MaxQueryLength)

(***************************************************************************)
(* VectorStore: the embedding provider and the index are external.  What   *)
(* they do in one call is a provider outcome: whether the embedding call   *)
(* and the index query succeed, and the matches the index returns.         *)
(***************************************************************************)
\* metadata.get(key, default)
MetaGet(metadata, key, default) ==
    IF key \in DOMAIN metadata THEN metadata[key] ELSE default

Returned(v) == [raised |-> FALSE, value |-> v]
Raised == [raised |-> TRUE, value |-> <<>>]

EmbedCall(text, ok) == [fn |-> "embed", arg |-> text, ok |-> ok]
QueryCall(top_k, ok) == [fn |-> "query", arg |-> top_k, ok |-> ok]

\* Faulty variant of ExceptReturnEmpty: the handler logs and raises again.
ExceptReraise(r) == r

\* except Exception: log and return []
ExceptReturnEmpty(r) == IF r.raised THEN Returned(<<>>) ELSE r

\* one entry of the result list of query_similar_documents
QueryResult(match) ==
    [id |-> match.id,
     score |-> match.score,
     metadata |-> match.metadata,
     text_preview |-> MetaGet(match.metadata, "text_preview", "")]

\* Faulty variant of query_similar_documents: a failed embedding call is
\* tried once more before the handler gives up.
query_similar_documents_retrying(idx, query_text, top_k, outcome) ==
    IF idx = "None"
    THEN [calls |-> <<>>, ret |-> Returned(<<>>)]
    ELSE IF ~outcome.embed_ok
    THEN [calls |-> <<EmbedCall(query_text, FALSE), EmbedCall(query_text, FALSE)>>,
          ret |-> ExceptReturnEmpty(Raised)]
    ELSE IF ~outcome.query_ok
    THEN [calls |-> <<EmbedCall(query_text, TRUE), QueryCall(top_k, FALSE)>>,
          ret |-> ExceptReturnEmpty(Raised)]
    ELSE [calls |-> <<EmbedCall(query_text, TRUE), QueryCall(top_k, TRUE)>>,
          ret |-> ExceptReturnEmpty(Returned(
                      [i \in 1..Len(outcome.matches) |-> QueryResult(outcome.matches[i])]))]

\* VectorStore.query_similar_documents: the calls issued and what is returned
query_similar_documents(idx, query_text, top_k, outcome) ==
    IF idx = "None"
    THEN [calls |-> <<>>, ret |-> Returned(<<>>)]
    ELSE IF ~outcome.embed_ok
    THEN [calls |-> <<EmbedCall(query_text, FALSE)>>, ret |-> ExceptReturnEmpty(Raised)]
    ELSE IF ~outcome.query_ok
    THEN [calls |-> <<EmbedCall(query_text, TRUE), QueryCall(top_k, FALSE)>>,
          ret |-> ExceptReturnEmpty(Raised)]
    ELSE [calls |-> <<EmbedCall(query_text, TRUE), QueryCall(top_k, TRUE)>>,
          ret |-> ExceptReturnEmpty(Returned(
                      [i \in 1..Len(outcome.matches) |-> QueryResult(outcome.matches[i])]))]

(***************************************************************************)
(* RetrievalSystem.retrieve_relevant_documents                             *)
(***************************************************************************)
EnhancedResult(result) ==
    [id |-> result.id,
     relevance_score |-> result.score,
     content_preview |-> result.text_preview,
     source |-> MetaGet(result.metadata, "source", "Unknown"),
     document_type |-> MetaGet(result.metadata, "type", "Unknown"),
     chunk_info |-> [index |-> MetaGet(result.metadata, "chunk_index", 0),
                     total |-> MetaGet(result.metadata, "total_chunks", 1)]]

\* Faulty variant of NotInitialized: the precondition failure is raised.
NotInitializedRaises == [calls |-> <<>>, ret |-> Raised]

\* the retriever is not connected: log and return []
NotInitialized == [calls |-> <<>>, ret |-> Returned(<<>>)]

\* Faulty variant of retrieve_relevant_documents: the hits are returned last
\* first.
retrieve_relevant_documents_reversed(conn, idx, search_query, top_k, outcome) ==
    IF ~conn
    THEN NotInitialized
    ELSE LET q == query_similar_documents(idx, search_query, top_k, outcome)
             results == q.ret.value
         IN  [calls |-> q.calls,
              ret |-> ExceptReturnEmpty(
                          IF q.ret.raised THEN Raised
                          ELSE Returned([i \in 1..Len(results) |->
                                            EnhancedResult(results[Len(results) + 1 - i])]))]

retrieve_relevant_documents(conn, idx, search_query, top_k, outcome) ==
    IF ~conn
    THEN NotInitialized
    ELSE LET q == query_similar_documents(idx, search_query, top_k, outcome)
             results == q.ret.value
         IN  [calls |-> q.calls,
              ret |-> ExceptReturnEmpty(
                          IF q.ret.raised THEN Raised
                          ELSE Returned([i \in 1..Len(results) |->
                                            EnhancedResult(results[i])]))]

(***************************************************************************)
(* RetrievalSystem.get_context_for_generation                              *)
(***************************************************************************)
ContextTopK == 8
TruncationReserve == 50
TruncationMarker == "...[truncated]"

Digit(d) == Chr("0123456789", d + 1)

\* str(n) for n >= 0
RECURSIVE NatStr(_)
NatStr(n) == IF n < 10 THEN Digit(n) ELSE NatStr(n \div 10) \o Digit(n % 10)

\* f"{score:.3f}" of a score given in thousandths
Format3f(score) ==
    LET a == IF score < 0 THEN -score ELSE score
    IN  (IF score < 0 THEN "-" ELSE "") \o NatStr(a \div 1000) \o "."
        \o Digit((a \div 100) % 10) \o Digit((a \div 10) % 10) \o Digit(a % 10)

\* the header of the i-th candidate (i from 1)
Header(i, score) ==
    "\n--- Document " \o NatStr(i) \o " (Relevance: " \o Format3f(score) \o ") ---\n"

\* Faulty variant of EmptyBundle: the log message stands in for the text.
EmptyBundleWithMessage ==
    [context_text |-> "No relevant documents found", sources |-> <<>>,
     relevance_scores |-> <<>>, total_documents |-> 0]

\* the bundle returned when nothing was retrieved
EmptyBundle ==
    [context_text |-> "", sources |-> <<>>, relevance_scores |-> <<>>, total_documents |-> 0]

EmptyPacking ==
    [context_parts |-> <<>>, sources |-> <<>>, relevance_scores |-> <<>>, current_length |-> 0]

\* Faulty variant of ExceedsLimit: a candidate that fills the limit exactly
\* is taken to exceed it.
ExceedsLimitAtBoundary(current_length, header, content, max_context_length) ==
    current_length + Len(header) + Len(content) >= max_context_length

\* would adding header + content exceed the limit
ExceedsLimit(current_length, header, content, max_context_length) ==
    current_length + Len(header) + Len(content) > max_context_length

\* Faulty variant of TruncateContent: the marker is not appended.
TruncateContentNoMarker(content, header, max_context_length) ==
    SliceTo(content, max_context_length - Len(header) - TruncationReserve)

\* the content of a first candidate that is too long
TruncateContent(content, header, max_context_length) ==
    LET available_space == max_context_length - Len(header) - TruncationReserve
    IN  SliceTo(content, available_space) \o TruncationMarker

\* context_parts, sources and relevance_scores each get one more entry
AppendDocument(packing, doc, text, added_length) ==
    [context_parts |-> Append(packing.context_parts, text),
     sources |-> Append(packing.sources, doc.source),
     relevance_scores |-> Append(packing.relevance_scores, doc.relevance_score),
     current_length |-> packing.current_length + added_length]

\* Faulty variant of IncludeTruncated: the score of the truncated candidate is
\* not recorded.
IncludeTruncatedNoScore(packing, doc, header, content, max_context_length) ==
    [context_parts |-> Append(packing.context_parts,
                              header \o TruncateContent(content, header, max_context_length)),
     sources |-> Append(packing.sources, doc.source),
     relevance_scores |-> packing.relevance_scores,
     current_length |-> packing.current_length]

\* the first candidate is too long: it is included truncated
IncludeTruncated(packing, doc, header, content, max_context_length) ==
    AppendDocument(packing, doc,
                   header \o TruncateContent(content, header, max_context_length), 0)

\* Faulty variant of IncludeWhole: the text is added, the lists are not.
IncludeWholeTextOnly(packing, doc, header, content) ==
    [packing EXCEPT !.context_parts = Append(packing.context_parts, header \o content),
                    !.current_length = packing.current_length + Len(header) + Len(content)]

\* the candidate fits: it is included whole
IncludeWhole(packing, doc, header, content) ==
    AppendDocument(packing, doc, header \o content, Len(header) + Len(content))

\* Faulty variant of PackFrom: a later candidate that does not fit is skipped
\* (continue) instead of ending the loop (break).
RECURSIVE PackFromSkipping(_, _, _, _)
PackFromSkipping(documents, max_context_length, i, packing) ==
    IF i > Len(documents) THEN packing
    ELSE LET doc == documents[i]
             header == Header(i, doc.relevance_score)
             content == doc.content_preview
         IN  IF ExceedsLimit(packing.current_length, header, content, max_context_length)
             THEN IF packing.current_length = 0
                  THEN IncludeTruncated(packing, doc, header, content, max_context_length)
                  ELSE PackFromSkipping(documents, max_context_length, i + 1, packing)
             ELSE PackFromSkipping(documents, max_context_length, i + 1,
                                   IncludeWhole(packing, doc, header, content))

\* the loop over enumerate(documents), from the i-th candidate on
RECURSIVE PackFrom(_, _, _, _)
PackFrom(documents, max_context_length, i, packing) ==
    IF i > Len(documents) THEN packing
    ELSE LET doc == documents[i]
             header == Header(i, doc.relevance_score)
             content == doc.content_preview
         IN  IF ExceedsLimit(packing.current_length, header, content, max_context_length)
             THEN IF packing.current_length = 0
                  THEN IncludeTruncated(packing, doc, header, content, max_context_length)
                  ELSE packing
             ELSE PackFrom(documents, max_context_length, i + 1,
                           IncludeWhole(packing, doc, header, content))

\* the bundle built from the retrieved documents
ContextBundle(documents, max_context_length) ==
    IF documents = <<>> THEN EmptyBundle
    ELSE LET packing == PackFrom(documents, max_context_length, 1, EmptyPacking)
         IN  [context_text |-> Join(packing.context_parts, ""),
              sources |-> packing.sources,
              relevance_scores |-> packing.relevance_scores,
              total_documents |-> Len(packing.sources)]

(***************************************************************************)
(* Inputs                                                                  *)
(***************************************************************************)
RECURSIVE Rep(_, _)
Rep(s, n) ==
    IF n = 0 THEN ""
    ELSE IF n % 2 = 0 THEN LET h == Rep(s, n \div 2) IN h \o h
    ELSE s \o Rep(s, n - 1)

LongRepeats == 24

ModelNameInputs ==
    DOMAIN TURBULENCE_MODELS \cup {"nonexistent_model", "K_Epsilon"}

DescriptionInputs ==
    {"", "airfoil flow", "  flow over a backward_facing   step \n",
     "   ", Rep("separated turbulent flow ", LongRepeats)}

FocusInputs == {"", "separation", " wall  treatment ", Rep("pressure ", LongRepeats)}

\* vectors the index holds; upsert_documents stores at most the first
\* PreviewLength characters of a chunk as its text_preview
PreviewLength == 200

StoredMatches ==
    {[id |-> "doc_1_0", score |-> 900,
      metadata |-> [source |-> "https://www.cfd-online.com/Wiki/K-epsilon_models",
                    type |-> "url", chunk_index |-> 0, total_chunks |-> 4,
                    text_preview |-> "Cmu = 0.09"]],
     [id |-> "doc_1_1", score |-> 700,
      metadata |-> [source |-> "papers/menter1994.pdf",
                    type |-> "pdf", chunk_index |-> 1, total_chunks |-> 4,
                    text_preview |-> SliceTo(Rep("turbulence ", LongRepeats), PreviewLength)]],
     [id |-> "doc_2_0", score |-> 500,
      metadata |-> [chunk_index |-> 3]],
     [id |-> "doc_2_1", score |-> 500,
      metadata |-> [source |-> "notes/wall_functions.txt",
                    type |-> "text", chunk_index |-> 0, total_chunks |-> 1,
                    text_preview |-> "Wall functions bridge the viscous sublayer near the wall."]]}

\* the longest answer of the index that is explored
MaxMatches == 3

\* the lists of n distinct stored vectors
RECURSIVE MatchLists(_)
MatchLists(n) ==
    IF n = 0 THEN {<<>>}
    ELSE {Append(l, m) : l \in MatchLists(n - 1), m \in StoredMatches}

DistinctIds(l) == \A i, j \in 1..Len(l) : i # j => l[i].id # l[j].id

\* the answers of the index that are explored: lists of distinct stored vectors
AllAnswers ==
    UNION {{l \in MatchLists(n) : DistinctIds(l)} : n \in 0..MaxMatches}

\* what the index answers to a query for top_k matches
IndexAnswers(top_k) == {l \in AllAnswers : Len(l) <= top_k}

FailedOutcomes ==
    {[embed_ok |-> FALSE, query_ok |-> FALSE, matches |-> <<>>],
     [embed_ok |-> TRUE, query_ok |-> FALSE, matches |-> <<>>]}

ProviderOutcomes(top_k) ==
    FailedOutcomes
        \cup {[embed_ok |-> TRUE, query_ok |-> TRUE, matches |-> l] : l \in IndexAnswers(top_k)}

TopKInputs == {2, 5}

\* limits for the packer alone, and the limits the whole call is driven with
\* (4000 is the default and what the pipeline passes)
MaxContextInputs == {0, 49, 98, 150, 4000}

CallContextInputs == {98, 4000}

\* the queries the retriever is driven with
RetrievalInputs ==
    {<<"k_epsilon", "airfoil flow", "separation">>,
     <<"nonexistent_model", "airfoil flow", "">>}

SearchQueries ==
    [a \in RetrievalInputs |-> construct_search_query(a[1], a[2], a[3])]

(***************************************************************************)
(* The RetrievalSystem object                                              *)
(***************************************************************************)
InitialCall == [op |-> "__init__", args |-> <<>>, calls |-> <<>>, raised |-> FALSE, result |-> <<>>]

Init ==
    /\ connected = FALSE
    /\ index = "None"
    /\ initialized = FALSE
    /\ stored = <<>>
    /\ last = InitialCall

\* VectorStore.connect_to_index: the index exists, does not exist, or the
\* provider call fails
ConnectOutcomes == {"exists", "missing", "error"}

connect_to_index(outcome) == outcome = "exists"

\* RetrievalSystem.initialize
Initialize ==
    \E outcome \in ConnectOutcomes :
        LET ok == connect_to_index(outcome)
        IN  /\ index' = IF ok THEN "Index" ELSE index
            /\ connected' = IF ok THEN TRUE ELSE connected
            /\ last' = [op |-> "initialize", args |-> <<outcome>>, calls |-> <<>>,
                        raised |-> FALSE, result |-> ok]
            /\ UNCHANGED <<initialized, stored>>

RetrieveRelevantDocuments ==
    \E a \in RetrievalInputs, top_k \in TopKInputs :
      \E outcome \in ProviderOutcomes(top_k) :
        LET r == retrieve_relevant_documents(connected, index, SearchQueries[a], top_k, outcome)
        IN  /\ last' = [op |-> "retrieve_relevant_documents",
                        args |-> <<a, top_k>>,
                        outcome |-> outcome,
                        calls |-> r.calls,
                        raised |-> r.ret.raised,
                        result |-> r.ret.value]
            /\ UNCHANGED <<connected, index, initialized, stored>>

GetContextForGeneration ==
    \E a \in RetrievalInputs, max_context_length \in CallContextInputs :
      \E outcome \in ProviderOutcomes(ContextTopK) :
        LET r == retrieve_relevant_documents(connected, index, SearchQueries[a],
                                             ContextTopK, outcome)
        IN  /\ last' = [op |-> "get_context_for_generation",
                        args |-> <<a, max_context_length>>,
                        outcome |-> outcome,
                        calls |-> r.calls,
                        raised |-> r.ret.raised,
                        documents |-> r.ret.value,
                        result |-> IF r.ret.raised THEN <<>>
                                   ELSE ContextBundle(r.ret.value, max_context_length)]
            /\ UNCHANGED <<connected, index, initialized, stored>>

Next ==
    \/ Initialize
    \/ RetrieveRelevantDocuments
    \/ GetContextForGeneration

Spec == Init /\ [][Next]_vars

(***************************************************************************)
(* The query synthesizer alone: construct_search_query is a pure function  *)
(* of its three arguments, which the initial state draws.                  *)
(***************************************************************************)
InitQuery ==
    /\ connected = FALSE
    /\ index = "None"
    /\ initialized = FALSE
    /\ stored = <<>>
    /\ \E tm \in ModelNameInputs, ud \in DescriptionInputs, fa \in FocusInputs :
           last = [op |-> "pending", args |-> <<tm, ud, fa>>, calls |-> <<>>,
                   raised |-> FALSE, result |-> <<>>]

ConstructSearchQuery ==
    /\ last.op = "pending"
    /\ last' = [last EXCEPT !.op = "construct_search_query",
                            !.result = construct_search_query(last.args[1], last.args[2],
                                                              last.args[3])]
    /\ UNCHANGED <<connected, index, initialized, stored>>

NextQuery == ConstructSearchQuery

SpecQuery == InitQuery /\ [][NextQuery]_vars

(***************************************************************************)
(* The context packer alone: lines 138-180 of get_context_for_generation   *)
(* are a pure function of the retrieved documents and the limit, which the *)
(* initial state draws.                                                    *)
(***************************************************************************)
RetrievedLists ==
    {[i \in 1..Len(l) |-> EnhancedResult(QueryResult(l[i]))] : l \in AllAnswers}

InitPack ==
    /\ connected = TRUE
    /\ index = "Index"
    /\ initialized = FALSE
    /\ stored = <<>>
    /\ \E documents \in RetrievedLists, max_context_length \in MaxContextInputs :
           last = [op |-> "pending", args |-> <<documents, max_context_length>>,
                   calls |-> <<>>, raised |-> FALSE, result |-> <<>>]

PackContext ==
    /\ last.op = "pending"
    /\ last' = [last EXCEPT !.op = "pack_context",
                            !.result = ContextBundle(last.args[1], last.args[2])]
    /\ UNCHANGED <<connected, index, initialized, stored>>

NextPack == PackContext

SpecPack == InitPack /\ [][NextPack]_vars

(***************************************************************************)
(* Properties of the context packer, under SpecPack.                       *)
(***************************************************************************)
Packed == last.op = "pack_context"
PackedDocuments == last.args[1]
PackedLimit == last.args[2]

HeaderOf(documents, i) == Header(i, documents[i].relevance_score)

\* len(header) + len(content) summed over the candidates i..
RECURSIVE TotalLength(_, _)
TotalLength(documents, i) ==
    IF i > Len(documents) THEN 0
    ELSE Len(HeaderOf(documents, i)) + Len(documents[i].content_preview)
         + TotalLength(documents, i + 1)

\* header + content of the candidates i.., untruncated, in rank order
RECURSIVE WholeText(_, _)
WholeText(documents, i) ==
    IF i > Len(documents) THEN ""
    ELSE HeaderOf(documents, i) \o documents[i].content_preview \o WholeText(documents, i + 1)

FirstTooLong(documents, limit) ==
    /\ documents # <<>>
    /\ Len(HeaderOf(documents, 1)) + Len(documents[1].content_preview) > limit

\* C1: the context text is never longer than max_context_length, whatever
\* the retrieved documents and the limit.
C1_ContextWithinLimit ==
    Packed => Len(last.result.context_text) <= PackedLimit

\* C2: on every path of the packer, sources, relevance_scores and
\* total_documents agree in length.
C2_ParallelLists ==
    Packed =>
        /\ Len(last.result.sources) = last.result.total_documents
        /\ Len(last.result.relevance_scores) = last.result.total_documents

\* C2 witness: the first candidate was truncated and is the only entry, with
\* further candidates behind it.
C2_TruncatedPath ==
    /\ Packed
    /\ FirstTooLong(PackedDocuments, PackedLimit)
    /\ Len(PackedDocuments) >= 2
    /\ last.result.total_documents = 1

\* C3: the included documents are a prefix of the ranked list: sources and
\* relevance_scores are those of the first total_documents candidates.
C3_IncludedArePrefix ==
    Packed =>
        LET n == last.result.total_documents
        IN  /\ n <= Len(PackedDocuments)
            /\ last.result.sources = [i \in 1..n |-> PackedDocuments[i].source]
            /\ last.result.relevance_scores =
                   [i \in 1..n |-> PackedDocuments[i].relevance_score]

\* C3 witness: a candidate did not fit, and a lower-ranked one behind it would
\* have fitted in the space left, yet is not included.
C3_LaterCandidateWouldFit ==
    /\ Packed
    /\ last.result.total_documents >= 1
    /\ \E j \in 1..Len(PackedDocuments) :
           /\ j > last.result.total_documents + 1
           /\ Len(last.result.context_text) + Len(HeaderOf(PackedDocuments, j))
                  + Len(PackedDocuments[j].content_preview) <= PackedLimit

\* C9: a first candidate whose header plus content exceeds the limit is
\* included as header, a truncation of its content and the marker, and it is
\* the only entry of the bundle.
C9_FirstCandidateTruncated ==
    (Packed /\ FirstTooLong(PackedDocuments, PackedLimit)) =>
        LET doc == PackedDocuments[1]
            content == doc.content_preview
        IN  /\ last.result.total_documents = 1
            /\ last.result.sources = <<doc.source>>
            /\ last.result.relevance_scores = <<doc.relevance_score>>
            /\ \E k \in 0..Len(content) :
                   /\ k < Len(content) \/ content = ""
                   /\ last.result.context_text =
                          HeaderOf(PackedDocuments, 1) \o SubSeq(content, 1, k)
                              \o "...[truncated]"

\* C9 witness: a truncated first candidate that keeps some of its content,
\* followed by further candidates.
C9_TruncatedKeepsContent ==
    /\ Packed
    /\ FirstTooLong(PackedDocuments, PackedLimit)
    /\ Len(PackedDocuments) >= 2
    /\ Len(last.result.context_text) > Len(HeaderOf(PackedDocuments, 1)) + Len("...[truncated]")

\* C10: when header plus content summed over all candidates is within the
\* limit, every candidate is included whole, in rank order.
C10_AllFitAllIncluded ==
    (Packed /\ TotalLength(PackedDocuments, 1) <= PackedLimit) =>
        /\ last.result.total_documents = Len(PackedDocuments)
        /\ last.result.sources =
               [i \in 1..Len(PackedDocuments) |-> PackedDocuments[i].source]
        /\ last.result.relevance_scores =
               [i \in 1..Len(PackedDocuments) |-> PackedDocuments[i].relevance_score]
        /\ last.result.context_text = WholeText(PackedDocuments, 1)

\* C10 witness: three candidates with scores 0.9, 0.7, 0.5 and room for all.
C10_ThreeInRankOrder ==
    /\ Packed
    /\ Len(PackedDocuments) = 3
    /\ TotalLength(PackedDocuments, 1) <= PackedLimit
    /\ last.result.relevance_scores = <<900, 700, 500>>
    /\ last.result.total_documents = 3

(***************************************************************************)
(* Properties of construct_search_query, under SpecQuery.                  *)
(***************************************************************************)
Constructed == last.op = "construct_search_query"

Registered(turbulence_model) ==
    \E i \in 1..Len(get_model_names) : get_model_names[i] = turbulence_model

\* C4: the query is at most 500 characters long, for a registered and for an
\* unregistered model name alike.
C4_QueryWithinLimit ==
    Constructed => Len(last.result) <= 500

\* C5: for a name the registry does not hold, the query is the name, the
\* literal " turbulence model parameters " and the description as given; the
\* focus area plays no part.
C5_FallbackPattern ==
    (Constructed /\ ~Registered(last.args[1])) =>
        last.result = last.args[1] \o " turbulence model parameters " \o last.args[2]

\* C5 witness: an unregistered name with a description that has surrounding
\* whitespace and a focus area that is not empty.
C5_UnregisteredUntrimmed ==
    /\ Constructed
    /\ ~Registered(last.args[1])
    /\ last.args[2] # "" /\ Strip(last.args[2]) # last.args[2]
    /\ last.args[3] # ""

(***************************************************************************)
(* Properties of the RetrievalSystem, under Spec.                          *)
(***************************************************************************)
Retrieved == last.op = "retrieve_relevant_documents"
ContextBuilt == last.op = "get_context_for_generation"

ProviderFailed(outcome) == ~outcome.embed_ok \/ ~outcome.query_ok

\* a call of retrieve_relevant_documents that returns documents
RetrieveSucceeds == RetrieveRelevantDocuments /\ last'.result # <<>>

\* C6: a call of retrieve_relevant_documents on a retriever that is not
\* connected returns the empty list, issues no embedding call and no index
\* query, and leaves the retriever not connected.
C6_NotConnectedNoOp ==
    [][(~connected /\ last'.op = "retrieve_relevant_documents") =>
          /\ last'.result = <<>>
          /\ ~last'.raised
          /\ last'.calls = <<>>
          /\ ~connected']_vars

\* C6 witness: a call on a retriever that is not connected, although the
\* providers would have answered with matches.
C6_CalledWhileNotConnected ==
    /\ Retrieved
    /\ ~connected
    /\ ~ProviderFailed(last.outcome)
    /\ last.outcome.matches # <<>>
    /\ last.result = <<>>

\* C7: when the embedding call or the index query fails during a call on a
\* connected retriever, the call returns the empty list, nothing is raised,
\* and the retriever stays connected.
C7_ProviderFailureIsEmptyResult ==
    [][(connected /\ last'.op = "retrieve_relevant_documents"
            /\ ProviderFailed(last'.outcome)) =>
          /\ last'.result = <<>>
          /\ ~last'.raised
          /\ connected']_vars

\* C7 witness: after a call in which the index query failed, the retriever
\* is connected and a further call that returns documents is possible.
C7_CallAfterFailureCanSucceed ==
    /\ Retrieved
    /\ last.outcome.embed_ok /\ ~last.outcome.query_ok
    /\ Len(last.calls) = 2
    /\ connected
    /\ ENABLED RetrieveSucceeds

\* C8: when retrieval yields no documents (the retriever is not connected, a
\* provider fails, or the index answers with no match) the bundle is the
\* empty one and nothing is raised.
C8_NoDocumentsEmptyBundle ==
    (ContextBuilt /\ (\/ ~connected
                      \/ ProviderFailed(last.outcome)
                      \/ last.outcome.matches = <<>>)) =>
        /\ ~last.raised
        /\ last.result = [context_text |-> "", sources |-> <<>>,
                          relevance_scores |-> <<>>, total_documents |-> 0]

\* C8 witness: a connected retriever whose embedding call failed, asked for a
\* context.
C8_ContextAfterEmbeddingFailure ==
    /\ ContextBuilt
    /\ connected
    /\ ~last.outcome.embed_ok
    /\ last.calls # <<>>
    /\ last.result.total_documents = 0

(***************************************************************************)
(* The DocumentProcessor, src/src/document_processor.py.                   *)
(***************************************************************************)
\* sub in s
Occurs(sub, s) ==
    \E i \in 1..(Len(s) - Len(sub) + 1) : SubSeq(s, i, i + Len(sub) - 1) = sub

\* s.startswith(p), s.endswith(p)
StartsWith(s, p) == Len(p) <= Len(s) /\ SubSeq(s, 1, Len(p)) = p
EndsWith(s, p) == Len(p) <= Len(s) /\ SubSeq(s, Len(s) - Len(p) + 1, Len(s)) = p

SetMin(S) == CHOOSE x \in S : \A y \in S : x <= y
SetMax(S) == CHOOSE x \in S : \A y \in S : x >= y

\* the elements of a set of numbers in increasing order
SortedSeq(S) ==
    [k \in 1..Cardinality(S) |-> CHOOSE p \in S : Cardinality({q \in S : q < p}) = k - 1]

\* re.sub(r'\s+', ' ', text): every run of whitespace becomes one space
CollapseWhitespace(text) ==
    LET words == Split(text)
        lead  == IF Len(text) > 0 /\ Chr(text, 1) \in Whitespace THEN " " ELSE ""
        trail == IF Len(text) > 0 /\ Chr(text, Len(text)) \in Whitespace THEN " " ELSE ""
    IN  IF words = <<>> THEN lead ELSE lead \o Join(words, " ") \o trail

\* re.sub(r'\n\s*\n', '\n\n', text): in a run of whitespace that holds two or
\* more line breaks, the stretch from its first to its last line break
\* becomes "\n\n"
RECURSIVE BlankLinesFrom(_, _)
BlankLinesFrom(s, i) ==
    IF i > Len(s) THEN ""
    ELSE IF Chr(s, i) = "\n"
         THEN LET e  == SkipWhitespace(s, i)
                  nl == {j \in (i + 1)..(e - 1) : Chr(s, j) = "\n"}
              IN  IF nl = {} THEN "\n" \o BlankLinesFrom(s, i + 1)
                  ELSE "\n\n" \o BlankLinesFrom(s, SetMax(nl) + 1)
    ELSE Chr(s, i) \o BlankLinesFrom(s, i + 1)

CollapseBlankLines(text) == IF Occurs("\n", text) THEN BlankLinesFrom(text, 1) ELSE text

\* Faulty variant of _clean_text: the final strip() is left out.
_clean_text_unstripped(text) == CollapseBlankLines(CollapseWhitespace(text))

\* DocumentProcessor._clean_text
_clean_text(text) == Strip(CollapseBlankLines(CollapseWhitespace(text)))

(***************************************************************************)
(* The text splitter the constructor configures: recursive character       *)
(* splitting on the separators below, the separator kept at the start of   *)
(* the piece that follows it, pieces merged up to chunk_size with          *)
(* chunk_overlap characters carried over, every chunk stripped.            *)
(***************************************************************************)
Separators == <<"\n\n", "\n", " ", "">>

MatchesOf(text, sep) ==
    {i \in 1..(Len(text) - Len(sep) + 1) : SubSeq(text, i, i + Len(sep) - 1) = sep}

\* the occurrences a left-to-right scan takes: they do not overlap
RECURSIVE TakeMatches(_, _, _)
TakeMatches(M, from, width) ==
    LET later == {i \in M : i >= from}
    IN  IF later = {} THEN {}
        ELSE {SetMin(later)} \cup TakeMatches(M, SetMin(later) + width, width)

SeparatorStarts(text, sep) ==
    IF Len(sep) = 1 THEN MatchesOf(text, sep) ELSE TakeMatches(MatchesOf(text, sep), 1, Len(sep))

\* the pieces of text between separators, each separator kept at the start
\* of the piece after it; empty pieces are dropped
SplitKeep(text, sep) ==
    IF sep = "" THEN [i \in 1..Len(text) |-> Chr(text, i)]
    ELSE LET P == SortedSeq(SeparatorStarts(text, sep))
             n == Len(P)
             first == IF n = 0 THEN text ELSE SubSeq(text, 1, P[1] - 1)
             rest == [k \in 1..n |->
                        SubSeq(text, P[k], IF k = n THEN Len(text) ELSE P[k + 1] - 1)]
         IN  IF first = "" THEN rest ELSE <<first>> \o rest

\* a chunk made of the current pieces
JoinDocs(current_doc) == Strip(Join(current_doc, ""))

\* pieces leave the front of the current chunk until what stays is within
\* the overlap and leaves room for the next piece
RECURSIVE DropForOverlap(_, _, _, _, _)
DropForOverlap(current_doc, total, len, chunk_size, chunk_overlap) ==
    IF current_doc # <<>> /\ (total > chunk_overlap \/ (total + len > chunk_size /\ total > 0))
    THEN DropForOverlap(Tail(current_doc), total - Len(Head(current_doc)), len,
                        chunk_size, chunk_overlap)
    ELSE [current_doc |-> current_doc, total |-> total]

\* the chunks made from splits[i..] when current_doc, of total characters,
\* is the chunk being filled
RECURSIVE MergeFrom(_, _, _, _, _, _)
MergeFrom(splits, i, current_doc, total, chunk_size, chunk_overlap) ==
    IF i > Len(splits)
    THEN IF JoinDocs(current_doc) = "" THEN <<>> ELSE <<JoinDocs(current_doc)>>
    ELSE LET d == splits[i]
             full == current_doc # <<>> /\ total + Len(d) > chunk_size
             kept == IF full
                     THEN DropForOverlap(current_doc, total, Len(d), chunk_size, chunk_overlap)
                     ELSE [current_doc |-> current_doc, total |-> total]
         IN  (IF full /\ JoinDocs(current_doc) # "" THEN <<JoinDocs(current_doc)>> ELSE <<>>)
                 \o MergeFrom(splits, i + 1, Append(kept.current_doc, d),
                              kept.total + Len(d), chunk_size, chunk_overlap)

merge_splits(splits, chunk_size, chunk_overlap) ==
    MergeFrom(splits, 1, <<>>, 0, chunk_size, chunk_overlap)

\* the first separator of Separators[k..] that occurs in text
SeparatorFor(text, k) ==
    SetMin({i \in k..Len(Separators) : Separators[i] = "" \/ MatchesOf(text, Separators[i]) # {}})

\* the pieces from lo to hi, each one shorter than chunk_size, merged; a run
\* of such pieces is merged where it starts
RunEnd(splits, i, chunk_size) ==
    SetMin({j \in i..Len(splits) : j = Len(splits) \/ Len(splits[j + 1]) >= chunk_size})

RunStarts(splits, i, chunk_size) ==
    /\ Len(splits[i]) < chunk_size
    /\ i = 1 \/ Len(splits[i - 1]) >= chunk_size

\* pieces shorter than chunk_size are merged, run by run; a longer piece is
\* split on the separators that remain (next > 0) or kept as it is
RECURSIVE SplitFrom(_, _, _, _)
RECURSIVE WalkSplits(_, _, _, _, _, _)
SplitFrom(text, k, chunk_size, chunk_overlap) ==
    LET si     == SeparatorFor(text, k)
        splits == SplitKeep(text, Separators[si])
    IN  WalkSplits(splits, 1, Len(splits), IF Separators[si] = "" THEN 0 ELSE si + 1,
                   chunk_size, chunk_overlap)

WalkSplits(splits, lo, hi, next, chunk_size, chunk_overlap) ==
    IF lo > hi THEN <<>>
    ELSE IF lo = hi
         THEN IF Len(splits[lo]) >= chunk_size
              THEN IF next = 0 THEN <<splits[lo]>>
                   ELSE SplitFrom(splits[lo], next, chunk_size, chunk_overlap)
              ELSE IF RunStarts(splits, lo, chunk_size)
                   THEN merge_splits(SubSeq(splits, lo, RunEnd(splits, lo, chunk_size)),
                                     chunk_size, chunk_overlap)
                   ELSE <<>>
    ELSE LET mid == (lo + hi) \div 2
         IN  WalkSplits(splits, lo, mid, next, chunk_size, chunk_overlap)
                 \o WalkSplits(splits, mid + 1, hi, next, chunk_size, chunk_overlap)

\* self.text_splitter.split_text(text)
split_text(text, chunk_size, chunk_overlap) == SplitFrom(text, 1, chunk_size, chunk_overlap)

\* an empty dict
EmptyDict == [k \in {} |-> k]

\* Faulty variant of NoChunks: blank text yields one empty chunk.
NoChunksOneEmpty == <<[text |-> "", metadata |-> EmptyDict]>>

\* chunk_text's answer for blank text
NoChunks == <<>>

\* Faulty variant of ChunkMetadata: chunk_index counts from 1.
ChunkMetadataOneBased(i, chunks, metadata) ==
    [chunk_index |-> i + 1,
     total_chunks |-> Len(chunks),
     chunk_size |-> Len(chunks[i + 1])] @@ (IF metadata = None THEN EmptyDict ELSE metadata)

\* the metadata of the chunk at index i (from 0): a copy of the caller's
\* dict, if any, updated with the chunk's position; a dict is a function
\* from its keys
ChunkMetadata(i, chunks, metadata) ==
    [chunk_index |-> i,
     total_chunks |-> Len(chunks),
     chunk_size |-> Len(chunks[i + 1])] @@ (IF metadata = None THEN EmptyDict ELSE metadata)

\* DocumentProcessor.chunk_text of a processor built with chunk_size and
\* chunk_overlap
chunk_text(text, metadata, chunk_size, chunk_overlap) ==
    IF Strip(text) = "" THEN NoChunks
    ELSE LET chunks == split_text(text, chunk_size, chunk_overlap)
         IN  [k \in 1..Len(chunks) |->
                [text |-> chunks[k], metadata |-> ChunkMetadata(k - 1, chunks, metadata)]]

(***************************************************************************)
(* The chunker alone: chunk_text is a pure function of the text, the       *)
(* metadata and the processor's two sizes, which the initial state draws.  *)
(***************************************************************************)
SentenceRepeats == 4

ChunkTextInputs ==
    {"", " ", " \n\t ", "x", "a  b", "  leading and trailing  ",
     Rep("This is a test document. ", SentenceRepeats),
     "alpha beta\n\ngamma delta epsilon\nzeta",
     "one\n\n\n\ntwo",
     "abcdefghijklmnopqrstuvwxyz",
     "turbulence   model\tparameters\n",
     "Cmu = 0.09\n\nC1epsilon = 1.44\n\nC2epsilon = 1.92"}

MetadataInputs ==
    {None, EmptyDict, [source |-> "test"],
     [source |-> "notes.txt", type |-> "text", chunk_index |-> 7]}

DefaultChunkSize == 1000
DefaultChunkOverlap == 200

\* DocumentProcessor(chunk_size, chunk_overlap): the defaults and two small
\* processors
SplitterInputs == {<<DefaultChunkSize, DefaultChunkOverlap>>, <<12, 4>>, <<5, 0>>}

InitChunk ==
    /\ connected = FALSE
    /\ index = "None"
    /\ initialized = FALSE
    /\ stored = <<>>
    /\ \E text \in ChunkTextInputs, metadata \in MetadataInputs, sizes \in SplitterInputs :
           last = [op |-> "pending", args |-> <<text, metadata, sizes[1], sizes[2]>>,
                   calls |-> <<>>, raised |-> FALSE, result |-> <<>>]

ChunkText ==
    /\ last.op = "pending"
    /\ last' = [last EXCEPT !.op = "chunk_text",
                            !.result = chunk_text(last.args[1], last.args[2],
                                                  last.args[3], last.args[4])]
    /\ UNCHANGED <<connected, index, initialized, stored>>

NextChunk == ChunkText

SpecChunk == InitChunk /\ [][NextChunk]_vars

(***************************************************************************)
(* Properties of the chunker, under SpecChunk.                             *)
(***************************************************************************)
Chunked == last.op = "chunk_text"

\* C11: the chunks chunk_text returns carry chunk_index 0, 1, .., N-1 in
\* list order, and every one of them carries total_chunks = N, the length
\* of the returned list.
C11_ChunkIndexContiguous ==
    Chunked =>
        \A k \in 1..Len(last.result) :
            /\ last.result[k].metadata.chunk_index = k - 1
            /\ last.result[k].metadata.total_chunks = Len(last.result)

\* a text split into several chunks, by a caller whose metadata already
\* holds a chunk_index
C11_SeveralChunks ==
    /\ Chunked
    /\ Len(last.result) >= 3
    /\ last.args[2] # None
    /\ "chunk_index" \in DOMAIN last.args[2]

\* C13: for the empty string and for text of whitespace only, with any
\* metadata or none, chunk_text returns the empty list and does not raise.
C13_BlankTextNoChunks ==
    (Chunked /\ \A i \in 1..Len(last.args[1]) : Chr(last.args[1], i) \in Whitespace)
        => last.result = <<>> /\ ~last.raised

\* whitespace-only text chunked without metadata
C13_WhitespaceOnlyChunked ==
    /\ Chunked
    /\ Len(last.args[1]) >= 2
    /\ \A i \in 1..Len(last.args[1]) : Chr(last.args[1], i) \in Whitespace
    /\ last.args[2] = None

(***************************************************************************)
(* Text extraction, src/src/document_processor.py lines 19-72.  What a URL *)
(* serves and what a path holds is the environment: Web and Files below.   *)
(***************************************************************************)
\* s.replace(old, new) for any non-empty old
ReplaceAll(s, old, new) ==
    LET P == SortedSeq(SeparatorStarts(s, old))
        n == Len(P)
        pieces == [k \in 1..(n + 1) |->
                     SubSeq(s, IF k = 1 THEN 1 ELSE P[k - 1] + Len(old),
                               IF k = n + 1 THEN Len(s) ELSE P[k] - 1)]
    IN  Join(pieces, new)

\* re.sub(r'<[^>]+>', '', s) from position i on: a tag opens at a "<" that
\* is followed by a character other than ">" and closes at the next ">"
TagOpens(s, i) ==
    {p \in i..(Len(s) - 2) :
        /\ Chr(s, p) = "<"
        /\ Chr(s, p + 1) # ">"
        /\ \E q \in (p + 2)..Len(s) : Chr(s, q) = ">"}

RECURSIVE RemoveTagsFrom(_, _)
RemoveTagsFrom(s, i) ==
    IF TagOpens(s, i) = {} THEN SubSeq(s, i, Len(s))
    ELSE LET p == SetMin(TagOpens(s, i))
             q == SetMin({j \in (p + 2)..Len(s) : Chr(s, j) = ">"})
         IN  SubSeq(s, i, p - 1) \o RemoveTagsFrom(s, q + 1)

\* DocumentProcessor._extract_text_from_html
_extract_text_from_html(html_content) ==
    _clean_text(
        ReplaceAll(ReplaceAll(ReplaceAll(ReplaceAll(ReplaceAll(
            RemoveTagsFrom(html_content, 1),
            "&nbsp;", " "), "&amp;", "&"), "&lt;", "<"), "&gt;", ">"), "&quot;", "\""))

\* DocumentProcessor._extract_text_from_pdf_bytes, of the text of each page
_extract_text_from_pdf_bytes(pages) ==
    _clean_text(Join([k \in 1..Len(pages) |-> pages[k] \o "\n"], ""))

ParagraphWords == 55

Paragraph == Rep("turbulence ", ParagraphWords)

\* what requests.get answers for a URL
Web ==
    [u \in {"https://cfd.example/k-epsilon.html", "https://cfd.example/sa-paper.pdf",
            "https://cfd.example/blank.html", "https://cfd.example/down"} |->
        CASE u = "https://cfd.example/k-epsilon.html" ->
                [status |-> "ok", content_type |-> "text/html; charset=UTF-8",
                 text |-> "<html><body><h1>k-epsilon</h1>\n<p>Cmu &amp; C1epsilon   are  constants</p>\n\n</body></html>"]
          [] u = "https://cfd.example/sa-paper.pdf" ->
                [status |-> "ok", content_type |-> "Application/PDF", readable |-> TRUE,
                 pages |-> <<"Spalart-Allmaras  model\ncb1 = 0.1355", "second   page\n">>]
          [] u = "https://cfd.example/blank.html" ->
                [status |-> "ok", content_type |-> "text/html",
                 text |-> "<html> <body>\n</body> </html>"]
          [] OTHER -> [status |-> "error"]]

\* what open() finds at a path; a PDF is the text of its pages, or is not
\* readable as a PDF
Files ==
    [f \in {"docs/sst.pdf", "docs/broken.pdf", "docs/notes.txt", "docs/long.txt",
            "docs/blank.txt"} |->
        CASE f = "docs/sst.pdf" ->
                [status |-> "ok", readable |-> TRUE,
                 pages |-> <<"k-omega SST\n\nbeta_star = 0.09">>]
          [] f = "docs/broken.pdf" -> [status |-> "ok", readable |-> FALSE, pages |-> <<>>]
          [] f = "docs/notes.txt" ->
                [status |-> "ok", text |-> "SST  model\n\nnotes   here\n"]
          [] f = "docs/long.txt" ->
                [status |-> "ok", text |-> Paragraph \o "\n\n" \o Paragraph]
          [] OTHER -> [status |-> "ok", text |-> "  \n"]]

Fetch(url) == IF url \in DOMAIN Web THEN Web[url] ELSE [status |-> "error"]
Open(path) == IF path \in DOMAIN Files THEN Files[path] ELSE [status |-> "error"]

\* DocumentProcessor.extract_text_from_url: any failure is raised again
extract_text_from_url(url) ==
    LET response == Fetch(url)
    IN  IF response.status # "ok" THEN Raised
        ELSE IF Occurs("application/pdf", Lower(response.content_type))
             THEN IF "pages" \in DOMAIN response /\ response.readable
                  THEN Returned(_extract_text_from_pdf_bytes(response.pages))
                  ELSE Raised
        ELSE Returned(_extract_text_from_html(response.text))

\* DocumentProcessor.extract_text_from_pdf_file
extract_text_from_pdf_file(pdf_path) ==
    LET file == Open(pdf_path)
    IN  IF file.status # "ok" \/ "pages" \notin DOMAIN file THEN Raised
        ELSE IF ~file.readable THEN Raised
        ELSE Returned(_extract_text_from_pdf_bytes(file.pages))

\* open(source, 'r', encoding='utf-8').read()
ReadFile(source) ==
    LET file == Open(source)
    IN  IF file.status # "ok" \/ "text" \notin DOMAIN file THEN Raised
        ELSE Returned(file.text)

\* the type process_document settles on
DocumentType(source, doc_type) ==
    LET detected == IF doc_type # "auto" THEN doc_type
                    ELSE IF StartsWith(source, "http://") \/ StartsWith(source, "https://")
                         THEN "url"
                    ELSE IF EndsWith(source, ".pdf") THEN "pdf"
                    ELSE "text"
    IN  IF detected \in {"url", "pdf"} THEN detected ELSE "text"

\* DocumentProcessor.process_document of a default processor: the chunks,
\* or raised; text is the text handed to chunk_text
process_document(source, doc_type) ==
    LET type == DocumentType(source, doc_type)
        text == IF type = "url" THEN extract_text_from_url(source)
                ELSE IF type = "pdf" THEN extract_text_from_pdf_file(source)
                ELSE ReadFile(source)
    IN  IF text.raised THEN [raised |-> TRUE, value |-> <<>>, type |-> type, text |-> ""]
        ELSE [raised |-> FALSE,
              value |-> chunk_text(text.value, [source |-> source, type |-> type],
                                   DefaultChunkSize, DefaultChunkOverlap),
              type |-> type,
              text |-> text.value]

(***************************************************************************)
(* VectorStore.create_index and VectorStore.upsert_documents,              *)
(* src/src/vector_store.py.                                                *)
(***************************************************************************)
CreateOutcomes == {"exists", "created", "error"}

create_index(outcome) == outcome \in {"exists", "created"}

UpsertBatchSize == 100
SourceLength == 500

UpsertCall(batch, ok) == [fn |-> "upsert", arg |-> batch, ok |-> ok]

UpsertOutcomes == {"ok", "embedding_error", "upsert_error"}

\* the vector of documents[i + 1], made at time now (in seconds)
VectorOf(doc, i, now) ==
    [id |-> "doc_" \o NatStr(now) \o "_" \o NatStr(i),
     values |-> [embedding_of |-> doc.text],
     metadata |-> [source |-> SliceTo(MetaGet(doc.metadata, "source", ""), SourceLength),
                   type |-> MetaGet(doc.metadata, "type", ""),
                   chunk_index |-> MetaGet(doc.metadata, "chunk_index", 0),
                   total_chunks |-> MetaGet(doc.metadata, "total_chunks", 1),
                   text_preview |-> SliceTo(doc.text, PreviewLength)]]

Batches(vectors) ==
    [b \in 1..((Len(vectors) + UpsertBatchSize - 1) \div UpsertBatchSize) |->
        SubSeq(vectors, (b - 1) * UpsertBatchSize + 1, Min(b * UpsertBatchSize, Len(vectors)))]

\* which provider call of upsert_documents fails: the embedding-th embedding
\* call or the batch-th batch write, 0 meaning none
NoFailure == [embedding |-> 0, batch |-> 0]

FailureOf(outcome) ==
    IF outcome = "embedding_error" THEN [embedding |-> 1, batch |-> 0]
    ELSE IF outcome = "upsert_error" THEN [embedding |-> 0, batch |-> 1]
    ELSE NoFailure

\* the vectors of the batches written before batch b
WrittenBefore(vectors, b) ==
    SubSeq(vectors, 1, Min((b - 1) * UpsertBatchSize, Len(vectors)))

\* the body of upsert_documents: the provider calls made, the answer and the
\* vectors the index was handed in batch writes that worked, in order
UpsertRun(idx, documents, now, failure) ==
    IF idx = "None" THEN [calls |-> <<>>, ret |-> FALSE, written |-> <<>>]
    ELSE IF failure.embedding \in 1..Len(documents)
         THEN [calls |-> [k \in 1..failure.embedding |->
                            EmbedCall(documents[k].text, k < failure.embedding)],
               ret |-> FALSE,
               written |-> <<>>]
    ELSE LET vectors == [k \in 1..Len(documents) |-> VectorOf(documents[k], k - 1, now)]
             embeds  == [k \in 1..Len(documents) |-> EmbedCall(documents[k].text, TRUE)]
             batches == Batches(vectors)
         IN  IF failure.batch \in 1..Len(batches)
             THEN [calls |-> embeds \o [b \in 1..failure.batch |->
                                          UpsertCall(batches[b], b < failure.batch)],
                   ret |-> FALSE,
                   written |-> WrittenBefore(vectors, failure.batch)]
             ELSE [calls |-> embeds \o [b \in 1..Len(batches) |-> UpsertCall(batches[b], TRUE)],
                   ret |-> TRUE,
                   written |-> vectors]

\* VectorStore.upsert_documents: the provider calls made and the answer.  An
\* embedding failure is the failure of the first embedding call, an upsert
\* failure that of the first batch.
upsert_documents(idx, documents, now, outcome) ==
    UpsertRun(idx, documents, now, FailureOf(outcome))

(***************************************************************************)
(* Batch ingestion, src/scripts/populate_database.py.                      *)
(***************************************************************************)
UrlInputs == DOMAIN Web

PathInputs == DOMAIN Files \cup {"docs/missing.txt"}

\* process_document is a function of its arguments and the environment: its
\* answers, tabulated (@@ makes the table an explicit function)
Processed ==
    [a \in (UrlInputs \X {"url"}) \cup (PathInputs \X {"auto"}) |->
        process_document(a[1], a[2])] @@ EmptyDict

\* what the scripts log of one call of process_document
LogEntry(source, r) ==
    [source |-> source, raised |-> r.raised, type |-> r.type, text |-> r.text,
     chunks |-> r.value]

\* Faulty variant of AfterFailure: the first failing document ends the loop.
AfterFailureAbort(sources, i) == Len(sources) + 1

\* except ...: continue -- the loop goes on with the document after the
\* failing one
AfterFailure(sources, i) == i + 1

\* the loop of populate_database over document_urls[i..]; log lists what
\* process_document was called with and what it did.  PopulateStep is one
\* pass of the loop body, r what process_document did with document_urls[i].
RECURSIVE PopulateLoop(_, _, _, _), PopulateStep(_, _, _, _, _)
PopulateLoop(document_urls, i, all_chunks, log) ==
    IF i > Len(document_urls) THEN [all_chunks |-> all_chunks, log |-> log]
    ELSE PopulateStep(document_urls, i, all_chunks, log,
                      Processed[<<document_urls[i], "url">>])

PopulateStep(document_urls, i, all_chunks, log, r) ==
    IF r.raised
    THEN PopulateLoop(document_urls, AfterFailure(document_urls, i), all_chunks,
                      Append(log, LogEntry(document_urls[i], r)))
    ELSE PopulateLoop(document_urls, i + 1,
                      IF r.value # <<>> THEN all_chunks \o r.value ELSE all_chunks,
                      Append(log, LogEntry(document_urls[i], r)))

NotCalled == [called |-> FALSE]
CalledWith(documents) == [called |-> TRUE, documents |-> documents]

\* if all_chunks: ... upsert_documents(all_chunks) ... else: return False --
\* the end of both scripts, loop being what their loop left
UpsertChunks(loop, now, upsert_outcome) ==
    IF loop.all_chunks = <<>>
    THEN [calls |-> <<>>, ret |-> FALSE, log |-> loop.log, upsert |-> NotCalled]
    ELSE upsert_documents("Index", loop.all_chunks, now, upsert_outcome)
             @@ [log |-> loop.log, upsert |-> CalledWith(loop.all_chunks)]

\* populate_database(document_urls)
populate_database(document_urls, index_outcome, now, upsert_outcome) ==
    IF ~create_index(index_outcome)
    THEN [calls |-> <<>>, ret |-> FALSE, log |-> <<>>, upsert |-> NotCalled]
    ELSE UpsertChunks(PopulateLoop(document_urls, 1, <<>>, <<>>), now, upsert_outcome)

\* the loop of add_local_documents over file_paths[i..]
RECURSIVE LocalLoop(_, _, _, _), LocalStep(_, _, _, _, _)
LocalLoop(file_paths, i, all_chunks, log) ==
    IF i > Len(file_paths) THEN [all_chunks |-> all_chunks, log |-> log]
    ELSE LocalStep(file_paths, i, all_chunks, log, Processed[<<file_paths[i], "auto">>])

LocalStep(file_paths, i, all_chunks, log, r) ==
    IF r.raised
    THEN LocalLoop(file_paths, AfterFailure(file_paths, i), all_chunks,
                   Append(log, LogEntry(file_paths[i], r)))
    ELSE LocalLoop(file_paths, i + 1, all_chunks \o r.value,
                   Append(log, LogEntry(file_paths[i], r)))

\* add_local_documents(file_paths)
add_local_documents(file_paths, index_outcome, now, upsert_outcome) ==
    IF ~connect_to_index(index_outcome)
    THEN [calls |-> <<>>, ret |-> FALSE, log |-> <<>>, upsert |-> NotCalled]
    ELSE UpsertChunks(LocalLoop(file_paths, 1, <<>>, <<>>), now, upsert_outcome)

(***************************************************************************)
(* The ingestion scripts alone: the initial state draws the batch, what    *)
(* the index provider answers and the clock.                               *)
(***************************************************************************)
MaxBatch == 3

\* the lists of at most MaxBatch members of S
ListsOf(S) == UNION {[1..n -> S] : n \in 0..MaxBatch}

ClockInputs == {1700000000}

\* what the index provider answers: every answer to the index set-up with
\* uploads that work, and every upload failure with an index that exists
IngestOutcomes(setup) ==
    (setup \X {"ok"}) \cup ({"exists"} \X UpsertOutcomes)

\* the state after a script has run and answered r
AfterScript(fn, r) ==
    [last EXCEPT !.op = fn, !.calls = r.calls,
                 !.result = [ret |-> r.ret, log |-> r.log, upsert |-> r.upsert]]

InitIngest ==
    /\ connected = FALSE
    /\ index = "None"
    /\ initialized = FALSE
    /\ stored = <<>>
    /\ \E now \in ClockInputs :
          \/ \E urls \in ListsOf(UrlInputs), o \in IngestOutcomes(CreateOutcomes) :
                last = [op |-> "pending", fn |-> "populate_database",
                        args |-> <<urls, o[1], now, o[2]>>,
                        calls |-> <<>>, raised |-> FALSE, result |-> <<>>]
          \/ \E paths \in ListsOf(PathInputs), o \in IngestOutcomes(ConnectOutcomes) :
                last = [op |-> "pending", fn |-> "add_local_documents",
                        args |-> <<paths, o[1], now, o[2]>>,
                        calls |-> <<>>, raised |-> FALSE, result |-> <<>>]

PopulateDatabase ==
    /\ last.op = "pending"
    /\ last.fn = "populate_database"
    /\ last' = AfterScript("populate_database",
                            populate_database(last.args[1], last.args[2],
                                              last.args[3], last.args[4]))
    /\ UNCHANGED <<connected, index, initialized, stored>>

AddLocalDocuments ==
    /\ last.op = "pending"
    /\ last.fn = "add_local_documents"
    /\ last' = AfterScript("add_local_documents",
                            add_local_documents(last.args[1], last.args[2],
                                                last.args[3], last.args[4]))
    /\ UNCHANGED <<connected, index, initialized, stored>>

NextIngest ==
    \/ PopulateDatabase
    \/ AddLocalDocuments

SpecIngest == InitIngest /\ [][NextIngest]_vars

(***************************************************************************)
(* Properties of ingestion, under SpecIngest.                              *)
(***************************************************************************)
Ingested == last.op \in {"populate_database", "add_local_documents"}

IndexSetUp == last.args[2] \in {"exists", "created"}

\* the type the script asks process_document for
RequestedType == IF last.fn = "populate_database" THEN "url" ELSE "auto"

ChunkTexts(chunks) == [k \in 1..Len(chunks) |-> chunks[k].text]

\* runs of whitespace collapsed to one space, leading and trailing
\* whitespace stripped
NormalizedText(text) == Join(Split(text), " ")

\* C12: on every ingestion path (url, pdf, local text file) the chunks made
\* of a document are the chunks of its normalized text: the text handed to
\* chunk_text with runs of whitespace collapsed to one space and leading and
\* trailing whitespace stripped.
C12_ChunksOfNormalizedText ==
    Ingested =>
        \A k \in 1..Len(last.result.log) :
            ~last.result.log[k].raised =>
                ChunkTexts(last.result.log[k].chunks)
                    = split_text(NormalizedText(last.result.log[k].text),
                                 DefaultChunkSize, DefaultChunkOverlap)

\* the chunks of the documents of the batch whose processing succeeds, in
\* batch order
RECURSIVE ChunksOfSuccessful(_, _)
ChunksOfSuccessful(sources, doc_type) ==
    IF sources = <<>> THEN <<>>
    ELSE (IF process_document(Head(sources), doc_type).raised THEN <<>>
          ELSE process_document(Head(sources), doc_type).value)
             \o ChunksOfSuccessful(Tail(sources), doc_type)

\* C16: in populate_database and add_local_documents a document whose
\* processing raises does not end the batch: process_document is called for
\* every document of the list, and the chunks of all the documents that
\* succeeded, those before and those after a failing one, are what
\* upsert_documents is called with.
C16_FailureDoesNotAbortBatch ==
    (Ingested /\ IndexSetUp) =>
        /\ [k \in 1..Len(last.result.log) |-> last.result.log[k].source] = last.args[1]
        /\ ChunksOfSuccessful(last.args[1], RequestedType) # <<>> =>
               last.result.upsert = CalledWith(ChunksOfSuccessful(last.args[1], RequestedType))

\* a batch whose second document fails between two that yield chunks
C16_FailureBetweenSuccesses ==
    /\ Ingested
    /\ Len(last.result.log) = 3
    /\ last.result.log[2].raised
    /\ last.result.log[1].chunks # <<>>
    /\ last.result.log[3].chunks # <<>>
    /\ last.result.upsert.called

(***************************************************************************)
(* Synonym expansion, src/src/retrieval_system.py lines 182-212.           *)
(***************************************************************************)
\* the expansions dict, in declaration order, its strings as the file holds
\* them; the per-mille sign that ends the first synonym of k-omega is
\* written % here, a string of TLA+ cannot hold it
Expansions ==
    << [term |-> "k-epsilon",
        synonyms |-> <<"k-Îµ", "k epsilon", "k_epsilon", "kinetic energy dissipation">>],
       [term |-> "k-omega",
        synonyms |-> <<"k-Ï%", "k omega", "k_omega", "kinetic energy frequency">>],
       [term |-> "SST",
        synonyms |-> <<"Shear Stress Transport", "Menter SST", "k-omega SST">>],
       [term |-> "spalart",
        synonyms |-> <<"Spalart-Allmaras", "SA model", "one equation model">>],
       [term |-> "reynolds",
        synonyms |-> <<"Reynolds stress", "RSM", "second moment closure">>],
       [term |-> "viscosity",
        synonyms |-> <<"turbulent viscosity", "eddy viscosity", "kinematic viscosity">>],
       [term |-> "dissipation",
        synonyms |-> <<"energy dissipation", "epsilon", "turbulent dissipation">>],
       [term |-> "production",
        synonyms |-> <<"turbulence production", "kinetic energy production">>],
       [term |-> "constants",
        synonyms |-> <<"coefficients", "parameters", "closure constants">>],
       [term |-> "wall",
        synonyms |-> <<"near-wall", "wall treatment", "wall function">>],
       [term |-> "boundary",
        synonyms |-> <<"boundary conditions", "BC", "wall BC">>],
       [term |-> "separation",
        synonyms |-> <<"flow separation", "separated flow", "adverse gradient">>],
       [term |-> "pressure",
        synonyms |-> <<"pressure gradient", "adverse pressure gradient", "APG">>] >>

SynonymsPerTerm == 2

\* if term in query_lower: the term as the table spells it is looked for in
\* the lowercased query
TermFound(term, query_lower) == Occurs(term, query_lower)

\* Faulty variant of ExpandedQuery: the expansion is appended to the
\* lowercased query.
ExpandedQueryLowered(base_query, expanded_terms) ==
    Lower(base_query) \o " " \o Join(expanded_terms, " ")

ExpandedQuery(base_query, expanded_terms) ==
    base_query \o " " \o Join(expanded_terms, " ")

\* RetrievalSystem.expand_query_with_synonyms
expand_query_with_synonyms(base_query) ==
    LET query_lower == Lower(base_query)
        expanded_terms ==
            Flatten([k \in 1..Len(Expansions) |->
                        IF TermFound(Expansions[k].term, query_lower)
                        THEN Take(Expansions[k].synonyms, SynonymsPerTerm)
                        ELSE <<>>])
    IN  IF expanded_terms # <<>> THEN ExpandedQuery(base_query, expanded_terms)
        ELSE base_query

(***************************************************************************)
(* Synonym expansion alone: a pure function of the query, which the        *)
(* initial state draws.                                                    *)
(***************************************************************************)
UpperChar(c) ==
    LET hit == {i \in 1..Len(LowerLetters) : Chr(LowerLetters, i) = c}
    IN  IF hit = {} THEN c ELSE Chr(UpperLetters, CHOOSE i \in hit : TRUE)

\* s.upper()
RECURSIVE Upper(_)
Upper(s) == IF s = "" THEN "" ELSE UpperChar(Chr(s, 1)) \o Upper(SubSeq(s, 2, Len(s)))

\* s.capitalize()
Capitalize(s) ==
    IF s = "" THEN "" ELSE UpperChar(Chr(s, 1)) \o Lower(SubSeq(s, 2, Len(s)))

AnchorTerms == {Expansions[k].term : k \in 1..Len(Expansions)}

\* every anchor term in lower case, in upper case and capitalized, alone and
\* inside a sentence; queries that hold several anchor terms or none
ExpandInputs ==
    {p[1] \o v \o p[2] :
        v \in UNION {{Lower(t), Upper(t), Capitalize(t)} : t \in AnchorTerms},
        p \in {<<"", "">>, <<"Tune the ", " model">>}}
    \cup {"", "flow simulation", "k-omega SST model constants near the wall",
          "Wall Pressure and Separation", "RANS closure"}
    \cup {SearchQueries[a] : a \in RetrievalInputs}

InitExpand ==
    /\ connected = FALSE
    /\ index = "None"
    /\ initialized = FALSE
    /\ stored = <<>>
    /\ \E base_query \in ExpandInputs :
           last = [op |-> "pending", args |-> <<base_query>>, calls |-> <<>>,
                   raised |-> FALSE, result |-> <<>>]

ExpandQueryWithSynonyms ==
    /\ last.op = "pending"
    /\ last' = [last EXCEPT !.op = "expand_query_with_synonyms",
                            !.result = expand_query_with_synonyms(last.args[1])]
    /\ UNCHANGED <<connected, index, initialized, stored>>

NextExpand == ExpandQueryWithSynonyms

SpecExpand == InitExpand /\ [][NextExpand]_vars

(***************************************************************************)
(* Properties of synonym expansion, under SpecExpand.                      *)
(***************************************************************************)
Expanded == last.op = "expand_query_with_synonyms"

\* the anchor term occurs in the query in some letter case
OccursInAnyCase(term, query) == Occurs(Lower(term), Lower(query))

\* C14: the result of expand_query_with_synonyms begins with base_query,
\* unchanged, and is base_query itself when no anchor term occurs in it.
C14_BaseQueryKept ==
    Expanded =>
        /\ StartsWith(last.result, last.args[1])
        /\ (\A t \in AnchorTerms : ~OccursInAnyCase(t, last.args[1]))
               => last.result = last.args[1]

\* a query with capital letters that was expanded
C14_MixedCaseExpanded ==
    /\ Expanded
    /\ last.args[1] # Lower(last.args[1])
    /\ Len(last.result) > Len(last.args[1])

\* the first two synonyms of every anchor term that occurs in the query in
\* some letter case, in table order
SynonymsDue(query) ==
    Flatten([k \in 1..Len(Expansions) |->
                IF OccursInAnyCase(Expansions[k].term, query)
                THEN Take(Expansions[k].synonyms, 2) ELSE <<>>])

\* C15: anchor terms are matched without regard to letter case: for every
\* anchor term ('SST' included) that occurs in base_query in any letter case
\* the term's first two synonyms are appended to the query.
C15_AnchorsMatchedInAnyCase ==
    Expanded =>
        last.result = IF SynonymsDue(last.args[1]) = <<>> THEN last.args[1]
                      ELSE last.args[1] \o " " \o Join(SynonymsDue(last.args[1]), " ")

(***************************************************************************)
(* The RAGPipeline, src/src/rag_pipeline.py: the pipeline object with the  *)
(* RetrievalSystem it owns.                                                *)
(***************************************************************************)
\* Faulty variant of InitializedAfter: the flag is set whatever the
\* retrieval system answered.
InitializedAfterAlways(was, ok) == TRUE

\* self.initialized after initialize(), where ok is what
\* retrieval_system.initialize() returned
InitializedAfter(was, ok) == IF ok THEN TRUE ELSE was

\* Faulty variant of search_documents: the initialized flag is not tested.
search_documents_unguarded(init, idx, query, top_k, outcome) ==
    LET q == query_similar_documents(idx, query, top_k, outcome)
    IN  [calls |-> q.calls, ret |-> ExceptReturnEmpty(q.ret)]

\* RAGPipeline.search_documents
search_documents(init, idx, query, top_k, outcome) ==
    IF ~init THEN [calls |-> <<>>, ret |-> Returned(<<>>)]
    ELSE LET q == query_similar_documents(idx, query, top_k, outcome)
         IN  [calls |-> q.calls, ret |-> ExceptReturnEmpty(q.ret)]

SearchInputs == {"k-epsilon constants", ""}

InitPipeline ==
    /\ connected = FALSE
    /\ index = "None"
    /\ initialized = FALSE
    /\ stored = <<>>
    /\ last = InitialCall

\* RAGPipeline.initialize, with RetrievalSystem.initialize inside it
PipelineInitialize ==
    \E outcome \in ConnectOutcomes :
        LET ok == connect_to_index(outcome)
        IN  /\ index' = IF ok THEN "Index" ELSE index
            /\ connected' = IF ok THEN TRUE ELSE connected
            /\ initialized' = InitializedAfter(initialized, ok)
            /\ UNCHANGED stored
            /\ last' = [op |-> "pipeline_initialize", args |-> <<outcome>>, calls |-> <<>>,
                        raised |-> FALSE, result |-> ok]

SearchDocuments ==
    \E query \in SearchInputs, top_k \in TopKInputs :
      \E outcome \in ProviderOutcomes(top_k) :
        LET r == search_documents(initialized, index, query, top_k, outcome)
        IN  /\ last' = [op |-> "search_documents",
                        args |-> <<query, top_k>>,
                        outcome |-> outcome,
                        calls |-> r.calls,
                        raised |-> r.ret.raised,
                        result |-> r.ret.value]
            /\ UNCHANGED <<connected, index, initialized, stored>>

\* the pipeline's own methods, and initialize() called on its
\* retrieval_system attribute
NextPipeline ==
    \/ PipelineInitialize
    \/ Initialize
    \/ SearchDocuments

SpecPipeline == InitPipeline /\ [][NextPipeline]_vars

(***************************************************************************)
(* Properties of the pipeline, under SpecPipeline.                         *)
(***************************************************************************)
PipelineInitializeReturned(answer) ==
    last'.op = "pipeline_initialize" /\ last'.result = answer

\* C17: initialized is False on creation; it becomes True only in a call of
\* initialize() in which retrieval_system.initialize() returned True, and a
\* call of initialize() that fails leaves it as it was; so whenever
\* initialized is True, retrieval_system.connected is True.
C17_InitializedOnlyByInitialize ==
    /\ ~initialized
    /\ [][/\ (initialized' /\ ~initialized) =>
                (PipelineInitializeReturned(TRUE) /\ connect_to_index(last'.args[1]))
          /\ PipelineInitializeReturned(FALSE) => initialized' = initialized]_vars
    /\ [](initialized => connected)

\* initialize() has failed on a pipeline that is not initialized while its
\* retrieval system is connected
C17_FailedInitializeWhileConnected ==
    /\ last.op = "pipeline_initialize"
    /\ last.result = FALSE
    /\ ~initialized
    /\ connected

(***************************************************************************)
(* Registry lookup, src/src/turbulence_models.py lines 411-422 and         *)
(* RAGPipeline.validate_model, alone: functions of the name, which the     *)
(* initial state draws.                                                    *)
(***************************************************************************)
\* get_model_parameters
get_model_parameters(model_name) ==
    LET model == get_model(model_name)
    IN  IF model # None THEN model.parameters ELSE <<>>

\* RAGPipeline.validate_model: model_name in get_model_names()
validate_model(model_name) ==
    \E i \in 1..Len(get_model_names) : get_model_names[i] = model_name

\* the registered names; their beginnings; the names in other letter cases,
\* with hyphens, with a space around them; the names the tests use
LookupInputs ==
    LET keys == DOMAIN TURBULENCE_MODELS
    IN  keys
        \cup UNION {{SubSeq(k, 1, n) : n \in 0..Len(k)} : k \in keys}
        \cup UNION {{Upper(k), Capitalize(k), Replace(k, "_", "-"), k \o " ", " " \o k,
                     TURBULENCE_MODELS[k].full_name} : k \in keys}
        \cup {"nonexistent_model", "invalid_model"}

InitLookup ==
    /\ connected = FALSE
    /\ index = "None"
    /\ initialized = FALSE
    /\ stored = <<>>
    /\ \E model_name \in LookupInputs :
           last = [op |-> "pending", args |-> <<model_name>>, calls |-> <<>>,
                   raised |-> FALSE, result |-> <<>>]

LookupModel ==
    /\ last.op = "pending"
    /\ last' = [last EXCEPT !.op = "lookup",
                            !.result = [model |-> get_model(last.args[1]),
                                        parameters |-> get_model_parameters(last.args[1]),
                                        valid |-> validate_model(last.args[1])]]
    /\ UNCHANGED <<connected, index, initialized, stored>>

NextLookup == LookupModel

SpecLookup == InitLookup /\ [][NextLookup]_vars

(***************************************************************************)
(* Properties of the registry lookup, under SpecLookup.                    *)
(***************************************************************************)
LookedUp == last.op = "lookup"

IsRegistryKey(name) == name \in DOMAIN TURBULENCE_MODELS

\* C18: get_model(name) returns the model whose name field is name when
\* name is a key of the registry and None otherwise, with no normalization
\* of the name; get_model_parameters returns [] exactly for the names
\* get_model does not resolve, and validate_model returns False exactly for
\* those names.
C18_LookupIsExactMatch ==
    LookedUp =>
        /\ IsRegistryKey(last.args[1]) =>
              (last.result.model # None /\ last.result.model.name = last.args[1])
        /\ ~IsRegistryKey(last.args[1]) => last.result.model = None
        /\ (last.result.parameters = <<>>) <=> (last.result.model = None)
        /\ (last.result.valid = FALSE) <=> (last.result.model = None)

\* a registered name looked up in capital letters
C18_UpperCaseNameLookedUp ==
    /\ LookedUp
    /\ ~IsRegistryKey(last.args[1])
    /\ IsRegistryKey(Lower(last.args[1]))
    /\ last.result.model = None

(***************************************************************************)
(* The text of the bundle and its lists, under SpecPack.                   *)
(***************************************************************************)
\* header + content of the first n candidates, the k-th header numbered k
\* and carrying the k-th entry of scores
RECURSIVE NumberedParts(_, _, _)
NumberedParts(documents, scores, n) ==
    IF n = 0 THEN ""
    ELSE NumberedParts(documents, scores, n - 1)
             \o Header(n, scores[n]) \o documents[n].content_preview

\* C19: context_text is the concatenation, in order, of header + content of
\* the documents listed in sources: the k-th part's header is numbered k and
\* carries relevance_scores[k], sources[k] and relevance_scores[k] are the
\* values of the k-th document, and the text holds nothing else.  (A first
\* document that is too long contributes its content cut short with the
\* truncation marker appended.)
C19_TextMatchesSources ==
    Packed =>
        LET n == Len(last.result.sources)
            scores == last.result.relevance_scores
        IN  /\ n <= Len(PackedDocuments)
            /\ Len(scores) = n
            /\ \A k \in 1..n :
                  /\ last.result.sources[k] = PackedDocuments[k].source
                  /\ scores[k] = PackedDocuments[k].relevance_score
            /\ IF FirstTooLong(PackedDocuments, PackedLimit)
               THEN /\ n = 1
                    /\ \E m \in 0..Len(PackedDocuments[1].content_preview) :
                          last.result.context_text =
                              Header(1, scores[1])
                                  \o SubSeq(PackedDocuments[1].content_preview, 1, m)
                                  \o TruncationMarker
               ELSE last.result.context_text = NumberedParts(PackedDocuments, scores, n)

\* two documents included whole and a third left out
C19_TwoOfThreeIncluded ==
    /\ Packed
    /\ Len(PackedDocuments) = 3
    /\ Len(last.result.sources) = 2
    /\ last.result.context_text # ""

(***************************************************************************)
(* The parts of the query for a registered model, under SpecQuery.         *)
(***************************************************************************)
\* at most 2 of the alphabetic words longer than 4 characters of a
\* description, lowercased, in order
KeyWordsOf(description) ==
    Take(SelectSeq(Split(Lower(description)), LAMBDA w : Len(w) > 4 /\ IsAlpha(w)), 2)

\* every parameter's name followed by its key words, in declaration order
RECURSIVE TermsOfParameters(_)
TermsOfParameters(parameters) ==
    IF parameters = <<>> THEN <<>>
    ELSE <<Head(parameters).name>> \o KeyWordsOf(Head(parameters).description)
             \o TermsOfParameters(Tail(parameters))

NonEmptyTrimmed(s) == IF Strip(s) = "" THEN <<>> ELSE <<Strip(s)>>

PartsInOrder(model, user_description, focus_area) ==
    <<model.full_name, Replace(model.name, "_", "-"), model.category \o " turbulence model">>
        \o Take(TermsOfParameters(model.parameters), 10)
        \o Take(model.applications, 3)
        \o NonEmptyTrimmed(user_description)
        \o NonEmptyTrimmed(focus_area)

\* C20: for a registered model the query is built of these parts, in this
\* order, joined by single spaces: the full name; the key with hyphens for
\* underscores; "<category> turbulence model"; at most 10 parameter terms
\* (each parameter's name, then at most 2 alphabetic words longer than 4
\* characters of its description, in declaration order); at most the first
\* 3 applications; the trimmed description if not empty; the trimmed focus
\* area if not empty.  (What is returned is that string with underscores
\* turned to spaces, whitespace runs collapsed, cut at 500 characters.)
C20_QueryPartsInOrder ==
    (Constructed /\ Registered(last.args[1])) =>
        last.result =
            SliceTo(Join(Split(Replace(
                Join(PartsInOrder(TURBULENCE_MODELS[last.args[1]], last.args[2], last.args[3]),
                     " "),
                "_", " ")), " "), 500)

\* a registered model with more than 3 applications, a description with
\* whitespace around it and a focus area, the query not cut
C20_DescriptionAndFocusGiven ==
    /\ Constructed
    /\ Registered(last.args[1])
    /\ Len(TURBULENCE_MODELS[last.args[1]].applications) > 3
    /\ Strip(last.args[2]) # ""
    /\ Strip(last.args[2]) # last.args[2]
    /\ Strip(last.args[3]) # ""
    /\ Len(last.result) < 500

(***************************************************************************)
(* Properties of the mapping of index hits to retrieved documents, under   *)
(* Spec.                                                                   *)
(***************************************************************************)
\* a call on a connected retriever that the index answered
IndexAnswered == Retrieved /\ connected /\ ~ProviderFailed(last.outcome)

\* the literal string "Unknown" in a field that otherwise holds a number
IsUnknown(v) == v \notin Int /\ v = "Unknown"

\* C21: when an index hit's metadata lacks a field, the field of the
\* retrieved document that is resolved from it -- source, document_type,
\* chunk_info.index, chunk_info.total -- is the literal string "Unknown".
C21_UnresolvedFieldsUnknown ==
    IndexAnswered =>
        \A k \in 1..Len(last.result) :
            LET metadata == last.outcome.matches[k].metadata
                doc == last.result[k]
            IN  /\ "source" \notin DOMAIN metadata => doc.source = "Unknown"
                /\ "type" \notin DOMAIN metadata => doc.document_type = "Unknown"
                /\ "chunk_index" \notin DOMAIN metadata => IsUnknown(doc.chunk_info.index)
                /\ "total_chunks" \notin DOMAIN metadata => IsUnknown(doc.chunk_info.total)

\* scores never rise along the list
Descending(scores) == \A i \in 1..(Len(scores) - 1) : scores[i] >= scores[i + 1]

\* C22: retrieve_relevant_documents returns one document per index hit, in
\* the order of the index's answer (the k-th document is made of the k-th
\* hit); so the result is in descending relevance_score order whenever the
\* index's answer is in descending score order, ties in the index's order.
C22_OneDocumentPerHitInOrder ==
    IndexAnswered =>
        LET matches == last.outcome.matches
            scores == [k \in 1..Len(last.result) |-> last.result[k].relevance_score]
        IN  /\ Len(last.result) = Len(matches)
            /\ \A k \in 1..Len(matches) :
                   /\ last.result[k].id = matches[k].id
                   /\ last.result[k].relevance_score = matches[k].score
            /\ Descending([k \in 1..Len(matches) |-> matches[k].score]) => Descending(scores)

\* three hits in descending score order, the last two of equal score and
\* not in the order of their ids
C22_TiedHitsReturned ==
    /\ IndexAnswered
    /\ Len(last.result) = 3
    /\ last.result[1].relevance_score > last.result[2].relevance_score
    /\ last.result[2].relevance_score = last.result[3].relevance_score
    /\ last.result[2].id = "doc_2_1"
    /\ last.result[3].id = "doc_2_0"

\* the positions of the calls of a provider function in a call list
CallsOf(calls, fn) == {k \in 1..Len(calls) : calls[k].fn = fn}

\* C23: a call of retrieve_relevant_documents on a connected retriever
\* issues at most one embedding call and at most one index query; the
\* embedding call comes first, the index query is issued only after the
\* embedding call succeeded, and nothing follows a failed call.
C23_OneEmbeddingThenOneQuery ==
    (Retrieved /\ connected) =>
        /\ Cardinality(CallsOf(last.calls, "embed")) <= 1
        /\ Cardinality(CallsOf(last.calls, "query")) <= 1
        /\ \A k \in 1..Len(last.calls) : last.calls[k].fn \in {"embed", "query"}
        /\ \A k \in CallsOf(last.calls, "query") :
               k = 2 /\ last.calls[1].fn = "embed" /\ last.calls[1].ok
        /\ \A k \in 1..Len(last.calls) : ~last.calls[k].ok => k = Len(last.calls)

\* a connected retriever whose embedding call failed: that call is the only
\* one issued
C23_EmbeddingFailedNoQuery ==
    /\ Retrieved
    /\ connected
    /\ ~last.outcome.embed_ok
    /\ Len(last.calls) = 1
    /\ last.calls[1].fn = "embed"
    /\ ~last.calls[1].ok

(***************************************************************************)
(* _clean_text alone: the initial state draws the text.                    *)
(***************************************************************************)
\* the longest text drawn from CleanAlphabet
CleanTextLength == 4

CleanAlphabet == {"a", "b", " ", "\t", "\n"}

\* the strings of n characters of CleanAlphabet
RECURSIVE StringsOf(_)
StringsOf(n) ==
    IF n = 0 THEN {""} ELSE {s \o c : s \in StringsOf(n - 1), c \in CleanAlphabet}

\* dirty_text of test_clean_text
DirtyText == "  This   is   a   test\n\n\n  with   extra   spaces  "

CleanTextInputs ==
    UNION {StringsOf(n) : n \in 0..CleanTextLength}
        \cup {DirtyText, "Cmu = 0.09 \n \n\nC1epsilon\t=\t1.44\r\n"}

InitClean ==
    /\ connected = FALSE
    /\ index = "None"
    /\ initialized = FALSE
    /\ stored = <<>>
    /\ \E text \in CleanTextInputs :
           last = [op |-> "pending", args |-> <<text>>, calls |-> <<>>,
                   raised |-> FALSE, result |-> ""]

CleanText ==
    /\ last.op = "pending"
    /\ last' = [last EXCEPT !.op = "_clean_text", !.result = _clean_text(last.args[1])]
    /\ UNCHANGED <<connected, index, initialized, stored>>

NextClean == CleanText

SpecClean == InitClean /\ [][NextClean]_vars

(***************************************************************************)
(* Properties of _clean_text, under SpecClean.                             *)
(***************************************************************************)
Cleaned == last.op = "_clean_text"

\* the positions of the characters of s that are not whitespace, in order
InkPositions(s) == SortedSeq({i \in 1..Len(s) : Chr(s, i) \notin Whitespace})

\* C24: _clean_text returns a string without leading or trailing whitespace
\* in which every maximal run of whitespace of the input between two other
\* characters has become one space: the characters that are not whitespace
\* are those of the input in order, two of them are adjacent in the result
\* when they are adjacent in the input and are separated by exactly one
\* space otherwise, and nothing comes before the first or after the last.
C24_WhitespaceRunsBecomeOneSpace ==
    Cleaned =>
        LET text == last.args[1]
            out  == last.result
            P    == InkPositions(text)
            Q    == InkPositions(out)
        IN  /\ Len(Q) = Len(P)
            /\ \A k \in 1..Len(P) : Chr(out, Q[k]) = Chr(text, P[k])
            /\ \A k \in 1..(Len(P) - 1) :
                   IF P[k + 1] = P[k] + 1 THEN Q[k + 1] = Q[k] + 1
                   ELSE Q[k + 1] = Q[k] + 2 /\ Chr(out, Q[k] + 1) = " "
            /\ IF Len(Q) = 0 THEN out = ""
               ELSE Q[1] = 1 /\ Q[Len(Q)] = Len(out)

\* the text of test_clean_text, with leading and trailing spaces and a run
\* of three line breaks, cleaned
C24_DirtyTextCleaned ==
    /\ Cleaned
    /\ last.args[1] = DirtyText
    /\ last.result = "This is a test with extra spaces"

(***************************************************************************)
(* ParameterGenerator.generate_parameters, src/src/parameter_generator.py. *)
(* What the language model answers is the environment: the call fails, the *)
(* answer is not JSON, or it is a JSON object.  Numbers are in             *)
(* thousandths.                                                            *)
(***************************************************************************)
\* min_value and max_value of the parameters of each registered model, in
\* the order of its parameters list
ParameterBounds ==
    [k_epsilon |-> << <<50, 150>>, <<1200, 1600>>, <<1800, 2100>>, <<500, 2000>>,
                      <<1000, 1800>> >>,
     k_omega_sst |-> << <<50, 150>>, <<400, 700>>, <<50, 100>>, <<300, 600>>, <<60, 120>>,
                        <<500, 1200>>, <<300, 800>>, <<700, 1500>>, <<600, 1200>>,
                        <<200, 500>> >>,
     spalart_allmaras |-> << <<100, 200>>, <<500, 800>>, <<6000, 8000>>, <<3000, 3500>>,
                             <<200, 400>>, <<1500, 2500>>, <<500, 1000>> >>,
     reynolds_stress |-> << <<50, 150>>, <<1200, 1600>>, <<1800, 2100>>, <<1500, 2200>>,
                            <<400, 800>>, <<1000, 1800>>, <<500, 2000>> >>]

\* str(x) of a float x given in thousandths
FloatStr(x) ==
    LET a == IF x < 0 THEN -x ELSE x
        frac == a % 1000
    IN  (IF x < 0 THEN "-" ELSE "") \o NatStr(a \div 1000) \o "." \o Digit(frac \div 100)
        \o (IF frac % 100 = 0 THEN ""
            ELSE Digit((frac \div 10) % 10) \o (IF frac % 10 = 0 THEN "" ELSE Digit(frac % 10)))

\* ParameterGenerator._create_error_response
generator_create_error_response(error_message) ==
    [error |-> TRUE,
     error_message |-> error_message,
     parameters |-> EmptyDict,
     overall_confidence |-> 0,
     key_considerations |-> <<"Error occurred: " \o error_message>>,
     sensitivity_warnings |-> <<>>,
     validation_recommendations |-> <<"Please check system configuration and try again">>]

\* param_data after the bounds check of one parameter; of two warnings the
\* later assignment, that of the maximum, stays
CheckBounds(param_data, min_value, max_value) ==
    IF "value" \notin DOMAIN param_data THEN param_data
    ELSE IF param_data.value > max_value
         THEN [validation_warning |-> "Value " \o FloatStr(param_data.value)
                                         \o " above maximum " \o FloatStr(max_value)]
                  @@ param_data
    ELSE IF param_data.value < min_value
         THEN [validation_warning |-> "Value " \o FloatStr(param_data.value)
                                         \o " below minimum " \o FloatStr(min_value)]
                  @@ param_data
    ELSE param_data

\* validated_params: the entries of the answer named after a parameter of
\* the model
ValidatedParams(parameters, model_info) ==
    LET position(name) ==
            CHOOSE i \in 1..Len(model_info.parameters) : model_info.parameters[i].name = name
        bounds(name) == ParameterBounds[model_info.name][position(name)]
    IN  [name \in {model_info.parameters[i].name : i \in 1..Len(model_info.parameters)}
                      \cap DOMAIN parameters |->
            CheckBounds(parameters[name], bounds(name)[1], bounds(name)[2])]

\* response after the required fields were filled in and the metadata added
Enhanced(response, turbulence_model) ==
    [model_name |-> turbulence_model, generation_timestamp |-> None]
        @@ response
        @@ [parameters |-> EmptyDict, overall_confidence |-> 500, key_considerations |-> <<>>,
            sensitivity_warnings |-> <<>>, validation_recommendations |-> <<>>]

\* the enhanced response with its parameters validated against model_info
Validated(enhanced, model_info) ==
    IF model_info = None THEN enhanced
    ELSE [enhanced EXCEPT !.parameters = ValidatedParams(enhanced.parameters, model_info)]

\* ParameterGenerator._validate_and_enhance_response
_validate_and_enhance_response(response, turbulence_model) ==
    Validated(Enhanced(response, turbulence_model), get_model(turbulence_model))

\* the chat completion call: the prompts are made of these four arguments
ChatCall(turbulence_model, user_description, context_text, focus_area, ok) ==
    [fn |-> "chat",
     arg |-> [turbulence_model |-> turbulence_model, user_description |-> user_description,
              context_text |-> context_text, focus_area |-> focus_area],
     ok |-> ok]

\* Faulty variant of generate_parameters: without context the language model
\* is not asked.
generate_parameters_needs_context(turbulence_model, user_description, context_text, focus_area, llm) ==
    IF context_text = ""
    THEN [calls |-> <<>>, ret |-> generator_create_error_response("No context")]
    ELSE [calls |-> <<ChatCall(turbulence_model, user_description, context_text, focus_area,
                               llm.kind # "api_error")>>,
          ret |-> IF llm.kind = "api_error" THEN generator_create_error_response(llm.message)
                  ELSE IF llm.kind = "invalid_json"
                       THEN generator_create_error_response("Invalid JSON response from LLM")
                  ELSE _validate_and_enhance_response(llm.object, turbulence_model)]

\* ParameterGenerator.generate_parameters: the call issued and what is
\* returned; nothing is raised
generate_parameters(turbulence_model, user_description, context_text, focus_area, llm) ==
    [calls |-> <<ChatCall(turbulence_model, user_description, context_text, focus_area,
                          llm.kind # "api_error")>>,
     ret |-> IF llm.kind = "api_error" THEN generator_create_error_response(llm.message)
             ELSE IF llm.kind = "invalid_json"
                  THEN generator_create_error_response("Invalid JSON response from LLM")
             ELSE _validate_and_enhance_response(llm.object, turbulence_model)]

\* what the language model answers
LlmAnswers ==
    {[kind |-> "api_error", message |-> "Connection error."],
     [kind |-> "invalid_json"],
     [kind |-> "json", object |-> EmptyDict],
     [kind |-> "json",
      object |-> [parameters |-> [Cmu |-> [value |-> 90, confidence |-> 900],
                                  C1epsilon |-> [value |-> 1700, confidence |-> 600],
                                  sigma_k |-> [confidence |-> 500],
                                  Cb1 |-> [value |-> 135, confidence |-> 700]],
                  overall_confidence |-> 850,
                  key_considerations |-> <<"adverse pressure gradient">>]]}

(***************************************************************************)
(* RAGPipeline.generate_recommendations, src/src/rag_pipeline.py lines     *)
(* 75-166 and 196-216.  Nothing the try block calls raises in this model   *)
(* (the retriever and the generator catch their own failures), so the      *)
(* handler of lines 163-166 is not reached.                                *)
(***************************************************************************)
\* RAGPipeline._create_error_response
_create_error_response(error_message) ==
    [success |-> FALSE,
     error |-> error_message,
     model_name |-> "",
     recommendations |-> [error |-> TRUE,
                          error_message |-> error_message,
                          parameters |-> EmptyDict,
                          overall_confidence |-> 0,
                          key_considerations |-> <<>>,
                          sensitivity_warnings |-> <<>>,
                          validation_recommendations |-> <<>>],
     retrieval_info |-> [documents_used |-> 0, sources |-> <<>>, average_relevance |-> 0]]

\* RetrievalSystem.get_context_for_generation: the calls issued and the
\* bundle returned
get_context_for_generation(conn, idx, search_query, max_context_length, outcome) ==
    LET r == retrieve_relevant_documents(conn, idx, search_query, ContextTopK, outcome)
    IN  [calls |-> r.calls, info |-> ContextBundle(r.ret.value, max_context_length)]

RECURSIVE Sum(_)
Sum(scores) == IF scores = <<>> THEN 0 ELSE Head(scores) + Sum(Tail(scores))

\* sum(scores) / len(scores) if scores else 0.0, in thousandths, rounded down
AverageRelevance(relevance_scores) ==
    IF relevance_scores # <<>> THEN Sum(relevance_scores) \div Len(relevance_scores) ELSE 0

\* the max_context_length generate_recommendations asks for
PipelineContextLength == 4000

\* the response compiled at step 3, g being what generate_parameters did
CompileResponse(turbulence_model, search_query, include_debug_info, context, g) ==
    [calls |-> context.calls \o g.calls,
     ret |-> [success |-> TRUE,
              model_name |-> turbulence_model,
              recommendations |-> g.ret,
              retrieval_info |->
                  [documents_used |-> context.info.total_documents,
                   sources |-> context.info.sources,
                   average_relevance |-> AverageRelevance(context.info.relevance_scores)]]
             @@ (IF include_debug_info
                 THEN [debug_info |->
                          [context_length |-> Len(context.info.context_text),
                           relevance_scores |-> context.info.relevance_scores,
                           retrieval_query |-> search_query]]
                 ELSE EmptyDict)]

\* steps 2 and 3, context being what get_context_for_generation did
Recommend(a, search_query, include_debug_info, context, llm) ==
    CompileResponse(a[1], search_query, include_debug_info, context,
                    generate_parameters(a[1], a[2], context.info.context_text, a[3], llm))

\* Faulty variant of ModelSupported: every name passes.
ModelSupportedAlways(turbulence_model) == TRUE

\* self.validate_model(turbulence_model), as generate_recommendations asks
ModelSupported(turbulence_model) == validate_model(turbulence_model)

\* RAGPipeline.generate_recommendations(a[1], a[2], a[3], include_debug_info),
\* search_query being construct_search_query(a[1], a[2], a[3])
generate_recommendations(init, conn, idx, a, search_query, include_debug_info, outcome, llm) ==
    IF ~init
    THEN [calls |-> <<>>, ret |-> _create_error_response("Pipeline not initialized")]
    ELSE IF ~ModelSupported(a[1])
    THEN [calls |-> <<>>,
          ret |-> _create_error_response("Unsupported turbulence model: " \o a[1])]
    ELSE Recommend(a, search_query, include_debug_info,
                   get_context_for_generation(conn, idx, search_query,
                                              PipelineContextLength, outcome),
                   llm)

\* the requests the pipeline is driven with
RecommendInputs ==
    {<<"k_epsilon", "airfoil flow", "separation">>,
     <<"nonexistent_model", "airfoil flow", "">>,
     <<"K_Epsilon", "", "">>}

RecommendQueries ==
    [a \in RecommendInputs |-> construct_search_query(a[1], a[2], a[3])] @@ EmptyDict

\* what the providers do during a request: a failure, or an answer of the
\* index in descending score order
RecommendOutcomes ==
    {o \in ProviderOutcomes(ContextTopK) :
        Descending([k \in 1..Len(o.matches) |-> o.matches[k].score])}

\* the state after a request that did r
AfterRequest(a, include_debug_info, outcome, llm, r) ==
    [op |-> "generate_recommendations",
     args |-> <<a[1], a[2], a[3], include_debug_info>>,
     outcome |-> outcome,
     llm |-> llm,
     calls |-> r.calls,
     raised |-> FALSE,
     result |-> r.ret]

GenerateRecommendations ==
    \E a \in RecommendInputs, include_debug_info \in BOOLEAN, llm \in LlmAnswers :
      \E outcome \in RecommendOutcomes :
        /\ last' = AfterRequest(a, include_debug_info, outcome, llm,
                                 generate_recommendations(initialized, connected, index, a,
                                                          RecommendQueries[a],
                                                          include_debug_info, outcome, llm))
        /\ UNCHANGED <<connected, index, initialized, stored>>

\* the pipeline's methods, and initialize() called on its retrieval_system
\* attribute
NextRecommend ==
    \/ PipelineInitialize
    \/ Initialize
    \/ SearchDocuments
    \/ GenerateRecommendations

SpecRecommend == InitPipeline /\ [][NextRecommend]_vars

(***************************************************************************)
(* Properties of generate_recommendations, under SpecRecommend.            *)
(* initialized is never reset and a request leaves it alone, so its value  *)
(* in a state is its value when the request of that state was made.        *)
(***************************************************************************)
Recommended == last.op = "generate_recommendations"

\* the bundle get_context_for_generation returned to the request
ContextOfRequest ==
    get_context_for_generation(connected, index,
                               RecommendQueries[<<last.args[1], last.args[2], last.args[3]>>],
                               PipelineContextLength, last.outcome).info

\* C25: on an initialized pipeline with a supported model, when the context
\* bundle has total_documents = 0 the generator is still invoked, once and
\* with context_text = "", and the response reports documents_used = 0,
\* sources = [] and average_relevance = 0.0; nothing is raised.
C25_EmptyContextStillGenerates ==
    (Recommended /\ initialized /\ IsRegistryKey(last.args[1])
        /\ ContextOfRequest.total_documents = 0) =>
        /\ Cardinality(CallsOf(last.calls, "chat")) = 1
        /\ \A k \in CallsOf(last.calls, "chat") : last.calls[k].arg.context_text = ""
        /\ last.result.retrieval_info
               = [documents_used |-> 0, sources |-> <<>>, average_relevance |-> 0]
        /\ ~last.raised

\* the index answered a request for a supported model with no match, and
\* the generator recommended parameters all the same
C25_NoMatchParametersGenerated ==
    /\ Recommended
    /\ initialized
    /\ last.args[1] = "k_epsilon"
    /\ ~ProviderFailed(last.outcome)
    /\ last.outcome.matches = <<>>
    /\ last.calls[Len(last.calls)].fn = "chat"
    /\ last.result.retrieval_info.documents_used = 0
    /\ DOMAIN last.result.recommendations.parameters # {}

\* C26: generate_recommendations on an initialized pipeline with a model
\* name that is not registered returns the error response (success False,
\* documents_used 0, no parameters) and makes no embedding call, no index
\* query and no generator call.
C26_UnsupportedModelRejected ==
    (Recommended /\ initialized /\ ~IsRegistryKey(last.args[1])) =>
        /\ ~last.result.success
        /\ last.result.retrieval_info.documents_used = 0
        /\ DOMAIN last.result.recommendations.parameters = {}
        /\ last.result.recommendations.error
        /\ last.calls = <<>>

\* a registered name in another letter case is rejected although the
\* providers would have answered
C26_OtherCaseRejected ==
    /\ Recommended
    /\ initialized
    /\ last.args[1] = "K_Epsilon"
    /\ ~ProviderFailed(last.outcome)
    /\ last.outcome.matches # <<>>
    /\ last.llm.kind = "json"
    /\ last.result.error = "Unsupported turbulence model: K_Epsilon"

\* C27: while the pipeline is not initialized, generate_recommendations
\* returns the error response with error "Pipeline not initialized" and
\* search_documents returns the empty list; neither issues an embedding
\* call, an index query or a generator call, and initialized stays False.
C27_NotInitializedNoOp ==
    [][~initialized =>
          /\ last'.op = "generate_recommendations" =>
                 /\ ~last'.result.success
                 /\ last'.result.error = "Pipeline not initialized"
                 /\ last'.result.recommendations.error
                 /\ last'.calls = <<>>
                 /\ ~initialized'
          /\ last'.op = "search_documents" =>
                 /\ last'.result = <<>>
                 /\ last'.calls = <<>>
                 /\ ~initialized']_vars

\* a request to a pipeline that is not initialized while its retrieval
\* system is connected and the providers would have answered
C27_RequestWhileNotInitialized ==
    /\ Recommended
    /\ ~initialized
    /\ connected
    /\ last.args[1] = "k_epsilon"
    /\ ~ProviderFailed(last.outcome)
    /\ last.outcome.matches # <<>>
    /\ last.result.error = "Pipeline not initialized"

\* the generator's call failed or its answer was not JSON
GeneratorFailed == \E k \in CallsOf(last.calls, "chat") : last.llm.kind # "json"

\* C30: a response with success = True carries recommendations without an
\* error flag; when the generator call fails or its output cannot be
\* parsed, the response has success = False.
C30_SuccessMeansNoErrorFlag ==
    Recommended =>
        /\ last.result.success =>
               ("error" \notin DOMAIN last.result.recommendations
                   \/ ~last.result.recommendations.error)
        /\ GeneratorFailed => ~last.result.success

(***************************************************************************)
(* The VectorStore and the content of its index: connect_to_index and      *)
(* upsert_documents called again and again while the clock advances,       *)
(* src/src/vector_store.py.                                                *)
(***************************************************************************)
\* the seconds the clock may advance over a run
StoreTicks == 1

\* the second the first call is made at
ClockStart == CHOOSE now \in ClockInputs : TRUE

\* chunk k of n of a text document, as chunk_text makes it
StoreDoc(source, k, n) ==
    [text |-> source \o " part " \o NatStr(k),
     metadata |-> [source |-> source, type |-> "text", chunk_index |-> k - 1,
                   total_chunks |-> n,
                   chunk_size |-> Len(source \o " part " \o NatStr(k))]]

ChunksOf(source, n) == [k \in 1..n |-> StoreDoc(source, k, n)]

\* the document lists upsert_documents is called with: none, the chunks of
\* a small document, and one more chunk than a batch holds
UpsertInputs ==
    {<<>>, ChunksOf("docs/a.txt", 2), ChunksOf("docs/long.txt", UpsertBatchSize + 1)}

\* the provider failures explored: none, the first or second embedding call,
\* the first or second batch write
StoreFailures ==
    {NoFailure} \cup {[embedding |-> k, batch |-> 0] : k \in 1..2}
                \cup {[embedding |-> 0, batch |-> b] : b \in 1..2}

\* index.upsert(vectors=batch), batch after batch: a vector takes the place
\* of the stored vector with its id
Upserted(held, written) ==
    [id \in {written[k].id : k \in DOMAIN written} |->
        written[CHOOSE k \in DOMAIN written :
                    /\ written[k].id = id
                    /\ \A j \in DOMAIN written : written[j].id = id => j <= k]]
    @@ held

InitStore ==
    /\ connected = FALSE
    /\ index = "None"
    /\ initialized = FALSE
    /\ stored = <<>>
    /\ last = [op |-> "__init__", args |-> <<>>, now |-> ClockStart, calls |-> <<>>,
               ret |-> TRUE, written |-> <<>>]

\* the state after upsert_documents(documents) has run as r
AfterUpsert(documents, now, failure, r) ==
    [op |-> "upsert_documents", args |-> <<documents, failure>>, now |-> now,
     calls |-> r.calls, ret |-> r.ret, written |-> r.written]

\* VectorStore.connect_to_index
ConnectToIndex ==
    \E outcome \in ConnectOutcomes :
        /\ index' = IF connect_to_index(outcome) THEN "Index" ELSE index
        /\ last' = [op |-> "connect_to_index", args |-> <<outcome>>, now |-> last.now,
                    calls |-> <<>>, ret |-> connect_to_index(outcome), written |-> <<>>]
        /\ UNCHANGED <<connected, initialized, stored>>

\* VectorStore.upsert_documents(documents) at second now
UpsertAt(documents, now, failure, r) ==
    /\ stored' = Upserted(stored, r.written)
    /\ last' = AfterUpsert(documents, now, failure, r)
    /\ UNCHANGED <<connected, index, initialized>>

UpsertDocuments ==
    \E documents \in UpsertInputs, failure \in StoreFailures :
      \E now \in last.now..Min(last.now + 1, ClockStart + StoreTicks) :
        UpsertAt(documents, now, failure, UpsertRun(index, documents, now, failure))

NextStore ==
    \/ ConnectToIndex
    \/ UpsertDocuments

SpecStore == InitStore /\ [][NextStore]_vars

(***************************************************************************)
(* Properties of the index content, under SpecStore.                       *)
(***************************************************************************)
\* C28: every vector written by upsert_documents gets an id that differs
\* from the id of every other vector written by the same call and from the
\* id of every vector an earlier call stored, so that no upsert overwrites a
\* stored vector, also when two calls happen within the same clock second.
C28_UpsertIdsUnique ==
    [][last'.op = "upsert_documents" =>
          /\ DistinctIds(last'.written)
          /\ \A k \in DOMAIN last'.written :
                last'.written[k].id \notin DOMAIN stored]_vars

\* the vectors handed to the batch writes of a call, in order
BatchWrites(calls) ==
    [k \in 1..Len(calls) |-> IF calls[k].fn = "upsert" THEN calls[k].arg ELSE <<>>]

\* C29: upsert_documents returns True only if every input document was
\* written to the index exactly once, in input order, in batches of at most
\* 100; and whenever it returns False (index not connected, an embedding
\* failure, or a failing batch write) the index content is what it was
\* before the call.
C29_UpsertAllOrNothing ==
    [][last'.op = "upsert_documents" =>
          /\ last'.ret =>
                /\ \A k \in DOMAIN last'.calls : last'.calls[k].ok
                /\ \A k \in DOMAIN last'.calls :
                      last'.calls[k].fn = "upsert" =>
                          Len(last'.calls[k].arg) <= UpsertBatchSize
                /\ Len(Flatten(BatchWrites(last'.calls))) = Len(last'.args[1])
                /\ \A k \in DOMAIN last'.args[1] :
                      Flatten(BatchWrites(last'.calls))[k].values
                          = [embedding_of |-> last'.args[1][k].text]
          /\ ~last'.ret => stored' = stored]_vars

====
